---------------------------- MODULE Spec2Model ----------------------------
(***************************************************************************)
(* A model of the document pipeline of the internal assistant:             *)
(*   - the section assembler of _extract_text_with_docint (rag_modul.py),  *)
(*   - the multi-page table merger (rag_modul.py),                         *)
(*   - the chunker, _create_intelligent_chunks (rag_modul.py),             *)
(*   - the paragraph classifier, _classify_content_type (rag_modul.py),    *)
(*   - the upload / incremental indexing workflow (documentManagement.py), *)
(*   - the full indexing run, process_and_index_docs (rag_modul.py),       *)
(*   - document deletion, delete_document_complete (documentManagement.py),*)
(*   - the conversation memory, add_message (memory_manager.py).           *)
(* Texts are sequences of one-character strings, so that cleaning and      *)
(* pattern tests are computed, not assumed; a passage symbol such as       *)
(* "w2000" stands for that many words, one token each.                     *)
(* Specifications: SpecAssemble, SpecMerge, SpecChunk, SpecClassify,       *)
(* SpecIndex, SpecLaterCall (the calls after one call that changed         *)
(* nothing), SpecRuns (the same with the full indexing run),               *)
(* SpecConcurrent (two callers at the same time), SpecDelete and           *)
(* SpecMemory.                                                             *)
(***************************************************************************)
EXTENDS Integers, Sequences, FiniteSets, TLC

VARIABLES
    \* ---- section assembly (_extract_text_with_docint, paragraphs loop)
    paragraphs,          \* res.paragraphs: the analyzer's paragraph stream
    idx,                 \* number of paragraphs already consumed by the loop
    current_section,     \* <<>> (None) or <<section>>
    sections,            \* processed["sections"]
    section_counter,
    document_structure,  \* processed["document_structure"]
    pcA,                 \* "loop" | "done"
    \* ---- table merging (_merge_multi_page_tables)
    tables,              \* res.tables: the analyzer's raw tables, in order
    ti,                  \* i: index (0-based) of the table that opens the group
    tj,                  \* j: index (0-based) of the next candidate table
    continuation_tables, \* the current group
    merged,              \* the output list
    groups,              \* for each element of merged, the group it came from
    pcM,                 \* "start" | "outer" | "inner" | "done"
    \* ---- object store, index and indexing calls (documentManagement.py)
    blobs,               \* the container: blob name -> content of the blob
    points,              \* the collection: the entries of the sample documents
    other_points,        \* number of entries of the documents of another corpus
    ses,                 \* the sessions: for each caller, the call it is in
    index_log,           \* blob name -> <<>> or <<what its latest indexing left>>
    calls,               \* number of calls begun
    \* ---- chunk construction (_create_intelligent_chunks)
    input_doc,           \* doc_data: the sections and raw tables of a document
    cv_sections,         \* core_values_sections
    rest_sections,       \* other_sections
    core_chunk,          \* <<>> or <<the comprehensive core values chunk>>
    section_chunks,      \* for each section of rest_sections handled, its chunks
    table_chunks,        \* for each raw table handled, its chunks
    built_chunks,        \* chunks, before deduplication
    unique_chunks,       \* the chunks returned
    pcC,                 \* "partition" | "core" | "build" | "done"
    \* ---- paragraph classification (_classify_content_type)
    classification,      \* [text, role, content_type]: one call and its result
    \* ---- document deletion (delete_document_complete)
    deletion,            \* the call at hand: its position and its result
    \* ---- conversation memory (ConversationMemoryManager)
    redis_cache,         \* Redis: key -> the cached history (a list of messages)
    cosmos_items,        \* the items of the Cosmos DB container
    adds,                \* for each caller, the add_message call it is in
    arrivals             \* number of add_message calls begun

varsA == <<paragraphs, idx, current_section, sections, section_counter,
           document_structure, pcA>>

varsM == <<tables, ti, tj, continuation_tables, merged, groups, pcM>>

varsI == <<blobs, points, other_points, ses, index_log, calls>>

varsC == <<input_doc, cv_sections, rest_sections, core_chunk, section_chunks,
           table_chunks, built_chunks, unique_chunks, pcC>>

varsK == <<classification>>

varsD == <<deletion>>

varsR == <<redis_cache, cosmos_items, adds, arrivals>>

vars == <<varsA, varsM, varsI, varsC, varsK, varsD, varsR>>

\* What the steps of one component leave alone.
notA == <<varsM, varsI, varsC, varsK, varsD, varsR>>
notM == <<varsA, varsI, varsC, varsK, varsD, varsR>>
notI == <<varsA, varsM, varsC, varsK, varsD, varsR>>
notC == <<varsA, varsM, varsI, varsK, varsD, varsR>>
notK == <<varsA, varsM, varsI, varsC, varsD, varsR>>
notD == <<varsA, varsM, varsC, varsK, varsR>>
notR == <<varsA, varsM, varsI, varsC, varsK, varsD>>

\* The number of calls a behaviour may begin.
MaxCalls == 2

\* A session that is in no call.  Optional values are <<>> (None) or <<v>>.
IdleSession ==
    [pc                |-> "idle",   \* "idle" | "upload" | "scan" | "list" | "fetch" | "write" | "done"
     call              |-> "none",   \* "none" | "reconcile" | "workflow"
     prefix            |-> <<>>,
     files             |-> <<>>,     \* the files of a workflow call
     fi                |-> 0,        \* files handled by batch_upload_files
     uploaded_files    |-> <<>>,
     failed_uploads    |-> 0,
     specific_files    |-> <<>>,     \* the argument of the call
     indexed_documents |-> {},
     blob_names        |-> <<>>,
     work              |-> <<>>,     \* the list the processing loop goes over
     k                 |-> 0,        \* names of work handled
     content           |-> <<>>,     \* content_bytes of the current document
     chunks            |-> <<>>,
     ci                |-> 0,        \* chunks of the current document handled
     indexed           |-> 0,
     skipped           |-> 0,
     errors            |-> <<>>,
     total_chunks      |-> 0,
     result            |-> "none",   \* "none" | "success" | "failure"
     \* what happened in the call, kept for the properties
     overwrote         |-> {},       \* names whose blob an upload replaced
     scanned           |-> FALSE,
     scan_failed       |-> FALSE,
     sources_at_scan   |-> {},       \* every source in the index at the scan
     listed            |-> FALSE,
     list_failed       |-> FALSE,
     analysed          |-> {},       \* names whose document was analysed
     writes            |-> 0,        \* entries written
     write_failed      |-> FALSE,    \* a write of the current document raised
     done_ok           |-> {}]       \* names indexed with every write succeeding

\* The store, the index and the sessions at rest: nothing stored, no caller.
IdleIndex ==
    /\ blobs = <<>>
    /\ points = {}
    /\ other_points = 0
    /\ ses = <<>>
    /\ index_log = <<>>
    /\ calls = 0

\* No paragraph is being classified.
IdleClassify == classification = [text |-> <<>>, role |-> <<>>, content_type |-> <<"content">>]

\* result of delete_document_complete before step 1, lines 550-558, with the
\* position of the call and the point ids found.
IdleDeletion ==
    [pc                       |-> "idle",  \* "idle" | "search" | "points" | "blob" | "done"
     blob_name                |-> <<>>,
     point_ids                |-> {},
     blob_deleted             |-> FALSE,
     search_documents_deleted |-> 0,
     search_deletion_errors   |-> FALSE,
     success                  |-> FALSE]

\* No document is being deleted.
IdleDelete == deletion = IdleDeletion

\* An empty conversation memory and no caller.
IdleMemory ==
    /\ redis_cache = <<>>
    /\ cosmos_items = {}
    /\ adds = <<>>
    /\ arrivals = 0

\* The chunker at rest, with an empty document.
IdleChunk ==
    /\ input_doc = [sections |-> <<>>, raw_tables |-> <<>>]
    /\ cv_sections = <<>>
    /\ rest_sections = <<>>
    /\ core_chunk = <<>>
    /\ section_chunks = <<>>
    /\ table_chunks = <<>>
    /\ built_chunks = <<>>
    /\ unique_chunks = <<>>
    /\ pcC = "done"

----------------------------------------------------------------------------
(* Characters and texts *)

Digits == {"0", "1", "2", "3", "4", "5", "6", "7", "8", "9"}

IsDigit(c) == c \in Digits

\* [ \t]
IsSpaceTab(c) == c \in {" ", "\t"}

\* \s, and what str.strip() removes
IsWhitespace(c) == c \in {" ", "\t", "\n", "\r"}

\* The non-breaking space (U+00A0), as one symbol of a text
NBSP == "nbsp"

RECURSIVE DropWhileSpaceTab(_)
DropWhileSpaceTab(s) ==
    IF s # <<>> /\ IsSpaceTab(Head(s)) THEN DropWhileSpaceTab(Tail(s)) ELSE s

RECURSIVE DropWhileWhitespace(_)
DropWhileWhitespace(s) ==
    IF s # <<>> /\ IsWhitespace(Head(s)) THEN DropWhileWhitespace(Tail(s)) ELSE s

RECURSIVE DropTrailingWhitespace(_)
DropTrailingWhitespace(s) ==
    IF s # <<>> /\ IsWhitespace(s[Len(s)])
    THEN DropTrailingWhitespace(SubSeq(s, 1, Len(s) - 1))
    ELSE s

\* str.strip()
Strip(s) == DropTrailingWhitespace(DropWhileWhitespace(s))

\* text.replace(NBSP, " ")
ReplaceNbsp(s) == [i \in 1..Len(s) |-> IF s[i] = NBSP THEN " " ELSE s[i]]

\* re.sub(r'[ \t]+', ' ', txt)
RECURSIVE CollapseSpaces(_)
CollapseSpaces(s) ==
    IF s = <<>> THEN <<>>
    ELSE IF IsSpaceTab(Head(s))
         THEN <<" ">> \o CollapseSpaces(DropWhileSpaceTab(Tail(s)))
         ELSE <<Head(s)>> \o CollapseSpaces(Tail(s))

\* re.sub(r'\n{4,}', '\n\n\n', txt): a run of newlines is cut to three.
RECURSIVE CapNewlines(_, _)
CapNewlines(s, run) ==
    IF s = <<>> THEN <<>>
    ELSE IF Head(s) = "\n"
         THEN (IF run >= 3 THEN <<>> ELSE <<"\n">>) \o CapNewlines(Tail(s), run + 1)
         ELSE <<Head(s)>> \o CapNewlines(Tail(s), 0)

\* re.sub(r'(\d+)\.(\s*)', r'\1. ', txt): a dot that ends a run of digits,
\* with the whitespace after it, becomes ". ".  prevDigit: the character
\* before Head(s) in the scanned text is a digit that no match has consumed.
RECURSIVE NormalizeNumbering(_, _)
NormalizeNumbering(s, prevDigit) ==
    IF s = <<>> THEN <<>>
    ELSE IF Head(s) = "." /\ prevDigit
         THEN <<".", " ">> \o NormalizeNumbering(DropWhileWhitespace(Tail(s)), FALSE)
         ELSE <<Head(s)>> \o NormalizeNumbering(Tail(s), IsDigit(Head(s)))

\* _clean_text.  The bullet substitution (line 31) rewrites characters that
\* are not in the alphabet of the model's texts; the sub-numbering
\* substitution (line 37) never matches after line 36, which leaves a space
\* after every digit-dot.
clean_text(text) ==
    IF text = <<>> THEN <<>>
    ELSE Strip(NormalizeNumbering(CapNewlines(CollapseSpaces(ReplaceNbsp(text)), 0), FALSE))

\* A long passage of running text, as one symbol of a text: so many words of
\* letters, each separated from the next by a single space.  _clean_text
\* leaves such a passage as it is.
PassageLength ==
    [w1000 |-> 1000, w2000 |-> 2000, w3000 |-> 3000, w4000 |-> 4000, w6000 |-> 6000]

IsPassage(c) == c \in DOMAIN PassageLength

\* The words of a text, counted from left to right; inWord tells whether the
\* text before ended inside a word.
RECURSIVE CountWords(_, _)
CountWords(text, inWord) ==
    IF text = <<>> THEN 0
    ELSE LET c == Head(text) IN
         IF IsWhitespace(c) THEN CountWords(Tail(text), FALSE)
         ELSE IF IsPassage(c)
              THEN PassageLength[c] - (IF inWord THEN 1 ELSE 0) + CountWords(Tail(text), TRUE)
              ELSE (IF inWord THEN 0 ELSE 1) + CountWords(Tail(text), TRUE)

\* tiktoken_len: the tokenizer is an external, deterministic function of the
\* text; it is modelled as one token per whitespace-separated word.
tiktoken_len(text) == CountWords(text, FALSE)

----------------------------------------------------------------------------
(* Section assembly: the paragraphs loop of _extract_text_with_docint *)

\* Values _classify_content_type returns (lines 398-470).
ContentTypes ==
    {"title", "heading", "core_values_header", "core_value_item",
     "core_value_content", "table_of_contents", "chapter", "section_header",
     "subsection_header", "appendix", "purpose_statement", "detailed_content",
     "table_content", "content"}

\* The list of line 317: the types that open a new section.
HeadingTypes == {"title", "heading", "section_header", "chapter", "subsection"}

\* section_data of lines 308-314, for the paragraph at 0-based index i.
SectionData(i) ==
    LET para == paragraphs[i + 1]
        text == clean_text(para.content)
    IN [content  |-> text,
        type     |-> para.content_type,
        role     |-> para.role,
        position |-> i,
        tokens   |-> tiktoken_len(text)]

\* A heading section that does not hold its own heading paragraph.
HeadingSectionWithoutHeading(data) ==
    [header        |-> data.content,
     type          |-> data.type,
     content_parts |-> <<>>,
     section_id    |-> section_counter,
     total_tokens  |-> tiktoken_len(data.content)]

\* Lines 321-327: the section a heading paragraph opens.
HeadingSection(data) ==
    [header        |-> data.content,
     type          |-> data.type,
     content_parts |-> <<data>>,
     section_id    |-> section_counter,
     total_tokens  |-> tiktoken_len(data.content)]

\* Lines 334-340: the synthetic section of a body paragraph met with no
\* section open.  "Document Content" is a text of two words.
DocumentContentHeader == <<"D", "o", "c", "u", "m", "e", "n", "t", " ",
                          "C", "o", "n", "t", "e", "n", "t">>

SyntheticSection(data) ==
    [header        |-> DocumentContentHeader,
     type          |-> "content",
     content_parts |-> <<data>>,
     section_id    |-> section_counter,
     total_tokens  |-> tiktoken_len(data.content)]

\* An append that leaves the token total as it was.
AppendedSectionSameTotal(sec, data) ==
    [sec EXCEPT !.content_parts = Append(@, data)]

\* Lines 331-332.
AppendedSection(sec, data) ==
    [sec EXCEPT !.content_parts = Append(@, data),
                !.total_tokens = @ + tiktoken_len(data.content)]

\* Lines 302-304: a paragraph whose cleaned text is empty is skipped.
SkipEmptyParagraph ==
    /\ pcA = "loop"
    /\ idx < Len(paragraphs)
    /\ clean_text(paragraphs[idx + 1].content) = <<>>
    /\ idx' = idx + 1
    /\ UNCHANGED <<paragraphs, current_section, sections, section_counter,
                   document_structure, pcA>>
    /\ UNCHANGED notA

\* Lines 317-328, 343: a heading paragraph flushes the open section and
\* opens a new one.
OpenHeadingSection ==
    /\ pcA = "loop"
    /\ idx < Len(paragraphs)
    /\ LET data == SectionData(idx) IN
        /\ data.content # <<>>
        /\ data.type \in HeadingTypes
        /\ sections' = sections \o current_section
        /\ current_section' = <<HeadingSection(data)>>
        /\ section_counter' = section_counter + 1
        /\ document_structure' = Append(document_structure, data)
    /\ idx' = idx + 1
    /\ UNCHANGED <<paragraphs, pcA>>
    /\ UNCHANGED notA

\* Lines 329-332, 343: a body paragraph joins the open section.
AppendToSection ==
    /\ pcA = "loop"
    /\ idx < Len(paragraphs)
    /\ current_section # <<>>
    /\ LET data == SectionData(idx) IN
        /\ data.content # <<>>
        /\ data.type \notin HeadingTypes
        /\ current_section' = <<AppendedSection(current_section[1], data)>>
        /\ document_structure' = Append(document_structure, data)
    /\ idx' = idx + 1
    /\ UNCHANGED <<paragraphs, sections, section_counter, pcA>>
    /\ UNCHANGED notA

\* Lines 333-341, 343: a body paragraph with no section open.
OpenSyntheticSection ==
    /\ pcA = "loop"
    /\ idx < Len(paragraphs)
    /\ current_section = <<>>
    /\ LET data == SectionData(idx) IN
        /\ data.content # <<>>
        /\ data.type \notin HeadingTypes
        /\ current_section' = <<SyntheticSection(data)>>
        /\ section_counter' = section_counter + 1
        /\ document_structure' = Append(document_structure, data)
    /\ idx' = idx + 1
    /\ UNCHANGED <<paragraphs, sections, pcA>>
    /\ UNCHANGED notA

\* Lines 345-346: after the loop the open section is flushed.
FlushFinalSection ==
    /\ pcA = "loop"
    /\ idx = Len(paragraphs)
    /\ sections' = sections \o current_section
    /\ pcA' = "done"
    /\ UNCHANGED <<paragraphs, idx, current_section, section_counter,
                   document_structure>>
    /\ UNCHANGED notA

\* ---- inputs of the assembler
MaxParagraphs == 3

\* The table merger at rest, with no tables.
IdleMerge ==
    /\ tables = <<>>
    /\ ti = 0
    /\ tj = 0
    /\ continuation_tables = <<>>
    /\ merged = <<>>
    /\ groups = <<>>
    /\ pcM = "done"


\* Raw paragraph texts: "", " ", "x" and "1.  y".
ParagraphTexts ==
    {<<>>, <<" ">>, <<"x">>, <<"1", ".", " ", " ", "y">>}

\* Content types given to sample paragraphs: every type of line 317 the
\* classifier can return, and types it returns that are not in the list.
SampleTypes ==
    {"title", "heading", "section_header", "chapter", "subsection_header", "content"}

\* A paragraph whose cleaned text is empty is never classified.
ParagraphInputs ==
    {[content |-> t, role |-> "none", content_type |-> "content"] :
        t \in {u \in ParagraphTexts : clean_text(u) = <<>>}}
    \cup
    {[content |-> t, role |-> "none", content_type |-> ty] :
        t \in {u \in ParagraphTexts : clean_text(u) # <<>>}, ty \in SampleTypes}

BoundedSeq(S, n) == UNION {[1..k -> S] : k \in 0..n}

InitAssemble ==
    /\ paragraphs \in BoundedSeq(ParagraphInputs, MaxParagraphs)
    /\ idx = 0
    /\ current_section = <<>>
    /\ sections = <<>>
    /\ section_counter = 0
    /\ document_structure = <<>>
    /\ pcA = "loop"
    /\ IdleMerge
    /\ IdleIndex
    /\ IdleChunk
    /\ IdleClassify
    /\ IdleDelete
    /\ IdleMemory

NextAssemble ==
    \/ SkipEmptyParagraph
    \/ OpenHeadingSection
    \/ AppendToSection
    \/ OpenSyntheticSection
    \/ FlushFinalSection

SpecAssemble == InitAssemble /\ [][NextAssemble]_vars

\* ---- claims about section assembly

RECURSIVE FlattenParts(_)
FlattenParts(secs) ==
    IF secs = <<>> THEN <<>>
    ELSE Head(secs).content_parts \o FlattenParts(Tail(secs))

\* The paragraphs among the first n whose cleaned text is not empty, as the
\* parts the loop builds for them, in input order.
RECURSIVE ExpectedParts(_)
ExpectedParts(n) ==
    IF n = 0 THEN <<>>
    ELSE IF clean_text(paragraphs[n].content) = <<>>
         THEN ExpectedParts(n - 1)
         ELSE Append(ExpectedParts(n - 1), SectionData(n - 1))

\* C1 (section coverage): when assembly is done, the parts of the emitted
\* sections, concatenated in output order, are exactly the paragraphs with
\* non-empty cleaned text, each once and in input order (so every such
\* paragraph is in exactly one section and no two sections share one);
\* during the loop the same holds of the emitted sections followed by the
\* open one, for the paragraphs consumed so far.
C1_SectionCoverage ==
    /\ pcA = "loop" =>
          FlattenParts(sections \o current_section) = ExpectedParts(idx)
    /\ pcA = "done" =>
          FlattenParts(sections) = ExpectedParts(Len(paragraphs))

\* Two sections were emitted from three paragraphs of which one was skipped
\* or shares a section with another.
C1_Witness ==
    /\ pcA = "done"
    /\ Len(paragraphs) = 3
    /\ Len(sections) = 2
    /\ \E i \in 1..3 : clean_text(paragraphs[i].content) = <<>>

----------------------------------------------------------------------------
(* Table continuation detection and merging *)

\* The section assembler at rest, with no paragraphs.
IdleAssemble ==
    /\ paragraphs = <<>>
    /\ idx = 0
    /\ current_section = <<>>
    /\ sections = <<>>
    /\ section_counter = 0
    /\ document_structure = <<>>
    /\ pcA = "done"

UpperLetters == <<"A", "B", "C", "D", "E", "F", "G", "H", "I", "J", "K", "L", "M",
                  "N", "O", "P", "Q", "R", "S", "T", "U", "V", "W", "X", "Y", "Z">>

LowerLetters == <<"a", "b", "c", "d", "e", "f", "g", "h", "i", "j", "k", "l", "m",
                  "n", "o", "p", "q", "r", "s", "t", "u", "v", "w", "x", "y", "z">>

UpperSet == {UpperLetters[k] : k \in 1..26}

LetterSet == UpperSet \cup {LowerLetters[k] : k \in 1..26}

\* The lower-case letter of each upper-case letter.
LowerOf == [c \in UpperSet |-> LowerLetters[CHOOSE n \in 1..26 : UpperLetters[n] = c]]

\* [a-zA-Z]
IsLetter(c) == c \in LetterSet

\* str.lower()
Lower(s) == [k \in 1..Len(s) |-> IF s[k] \in UpperSet THEN LowerOf[s[k]] ELSE s[k]]

\* word in text
Contains(text, word) ==
    \E k \in 0..(Len(text) - Len(word)) : SubSeq(text, k + 1, k + Len(word)) = word

\* re.search(r'\d', content)
HasDigit(content) == \E k \in 1..Len(content) : IsDigit(content[k])

\* re.search(r'[a-zA-Z]', content)
HasLetter(content) == \E k \in 1..Len(content) : IsLetter(content[k])

\* re.search(r'\d+[.,]\d+|\d{4}|IDR|Rp|\%', content), line 153
HasDataPattern(content) ==
    \/ \E k \in 1..(Len(content) - 2) :
          IsDigit(content[k]) /\ content[k + 1] \in {".", ","} /\ IsDigit(content[k + 2])
    \/ \E k \in 1..(Len(content) - 3) : \A d \in 0..3 : IsDigit(content[k + d])
    \/ Contains(content, <<"I", "D", "R">>)
    \/ Contains(content, <<"R", "p">>)
    \/ Contains(content, <<"%">>)

\* No page metadata: page_number is None (or 0), which line 123 treats alike.
NoPage == 0

\* sorted(cells, key=column_index), as the list of their cleaned contents.
RECURSIVE SortedContents(_)
SortedContents(cells) ==
    IF cells = {} THEN <<>>
    ELSE LET first == CHOOSE c \in cells :
                          \A d \in cells : c.column_index <= d.column_index
         IN <<clean_text(first.content)>> \o SortedContents(cells \ {first})

\* _extract_table_headers
extract_table_headers(table) ==
    IF table.cells = {} THEN <<>>
    ELSE SortedContents({c \in table.cells : c.row_index = 0})

\* Number of positions at which two lists of equal length agree under f.
MatchCount(l1, l2) == Cardinality({k \in 1..Len(l1) : l1[k] = l2[k]})

\* _calculate_header_similarity(h1, h2) > 0.8, in integers.
HeadersSimilar(headers1, headers2) ==
    /\ Len(headers1) = Len(headers2)
    /\ headers1 # <<>>
    /\ 10 * MatchCount([k \in 1..Len(headers1) |-> Lower(headers1[k])],
                       [k \in 1..Len(headers2) |-> Lower(headers2[k])])
         > 8 * Len(headers1)

\* _analyze_column_types: per column, the majority type of the cells below
\* the first row.
analyze_column_types(table) ==
    IF table.cells = {} \/ table.column_count = 0 THEN <<>>
    ELSE [c \in 1..table.column_count |->
            LET col_cells == {x \in table.cells :
                                 x.column_index = c - 1 /\ x.row_index > 0}
                has_numbers == Cardinality({x \in col_cells : HasDigit(x.content)})
                has_text == Cardinality({x \in col_cells : HasLetter(x.content)})
                total == Cardinality(col_cells)
            IN IF col_cells = {} THEN "empty"
               ELSE IF 10 * has_numbers > 7 * total THEN "number"
               ELSE IF 10 * has_text > 7 * total THEN "text"
               ELSE "mixed"]

\* A page test that lets a table two pages on still continue.
PageTooFarByTwo(table1, table2) ==
    /\ table1.page # NoPage
    /\ table2.page # NoPage
    /\ table2.page > table1.page + 2

\* Lines 116-125: both tables carry a page number and the second lies more
\* than one page after the first.
PageTooFar(table1, table2) ==
    /\ table1.page # NoPage
    /\ table2.page # NoPage
    /\ table2.page > table1.page + 1

\* Lines 128-139: both header rows exist and are identical or similar.
HeadersMatch(table1, table2) ==
    LET headers1 == extract_table_headers(table1)
        headers2 == extract_table_headers(table2)
    IN /\ headers1 # <<>>
       /\ headers2 # <<>>
       /\ \/ headers1 = headers2
          \/ HeadersSimilar(headers1, headers2)

\* Sum of the lengths of the contents of a set of cells.
RECURSIVE SumLengths(_)
SumLengths(cells) ==
    IF cells = {} THEN 0
    ELSE LET c == CHOOSE x \in cells : TRUE
         IN Len(c.content) + SumLengths(cells \ {c})

\* Lines 142-159: the first row of table2 looks like data.
FirstRowIsData(table2) ==
    LET first_row_cells == {c \in table2.cells : c.row_index = 0}
    IN /\ first_row_cells # {}
       /\ \/ SumLengths(first_row_cells) > 30 * Cardinality(first_row_cells)
          \/ \E c \in first_row_cells : HasDataPattern(c.content)

\* Lines 162-171: the column types agree on more than 70% of the columns.
ColumnTypesMatch(table1, table2) ==
    LET col_types1 == analyze_column_types(table1)
        col_types2 == analyze_column_types(table2)
    IN /\ col_types1 # <<>>
       /\ col_types2 # <<>>
       /\ Len(col_types1) = Len(col_types2)
       /\ 10 * MatchCount(col_types1, col_types2) > 7 * Len(col_types1)

\* A continuation test that ignores the distance.
is_table_continuation_at_any_distance(table1, table2, distance) ==
    IF table1.column_count # table2.column_count THEN FALSE
    ELSE IF PageTooFar(table1, table2) THEN FALSE
    ELSE \/ HeadersMatch(table1, table2)
         \/ FirstRowIsData(table2)
         \/ ColumnTypesMatch(table1, table2)

\* _is_table_continuation(table1, table2, distance)
is_table_continuation(table1, table2, distance) ==
    IF distance > 2 THEN FALSE
    ELSE IF table1.column_count # table2.column_count THEN FALSE
    ELSE IF PageTooFar(table1, table2) THEN FALSE
    ELSE \/ HeadersMatch(table1, table2)
         \/ FirstRowIsData(table2)
         \/ ColumnTypesMatch(table1, table2)

\* A merge that keeps the first row of every table.
StartRowKeepAll(table_idx) == 0

\* Line 191: the first row of every table but the first is skipped.
StartRow(table_idx) == IF table_idx > 0 THEN 1 ELSE 0

\* max((c.row_index for c in table.cells), default=0), line 204
MaxRowIndex(table) ==
    IF table.cells = {} THEN 0
    ELSE CHOOSE r \in {c.row_index : c \in table.cells} :
            \A c \in table.cells : c.row_index <= r

\* all_rows[adjusted_row][column_index] = content, for every cell of moved.
PutCells(all_rows, moved) ==
    {c \in all_rows : ~\E n \in moved : n.row_index = c.row_index
                                        /\ n.column_index = c.column_index}
    \cup moved

\* Lines 183-205: the pooled cells of tables k..Len(ts) of the group ts,
\* added to all_rows at current_row_offset.
RECURSIVE PoolRows(_, _, _, _)
PoolRows(ts, k, current_row_offset, all_rows) ==
    IF k > Len(ts) THEN all_rows
    ELSE LET table == ts[k]
             start_row == StartRow(k - 1)
             moved == {[row_index    |-> c.row_index - start_row + current_row_offset,
                        column_index |-> c.column_index,
                        content      |-> clean_text(c.content)] :
                          c \in {x \in table.cells : x.row_index >= start_row}}
         IN PoolRows(ts, k + 1,
                     current_row_offset + (MaxRowIndex(table) - start_row + 1),
                     PutCells(all_rows, moved))

\* _merge_table_list: one table as it is, several pooled into a MergedTable
\* that takes column_count and bounding_regions from the first.
merge_table_list(ts) ==
    IF Len(ts) = 1 THEN ts[1]
    ELSE LET rows_dict == PoolRows(ts, 1, 0, {})
         IN [column_count |-> ts[1].column_count,
             row_count    |-> Cardinality({c.row_index : c \in rows_dict}),
             page         |-> ts[1].page,
             cells        |-> rows_dict,
             is_merged    |-> TRUE]

\* Lines 233-234: fewer than two tables are returned as they are.
ReturnFewTables ==
    /\ pcM = "start"
    /\ Len(tables) < 2
    /\ merged' = tables
    /\ groups' = [k \in 1..Len(tables) |-> <<tables[k]>>]
    /\ pcM' = "done"
    /\ UNCHANGED <<tables, ti, tj, continuation_tables>>
    /\ UNCHANGED notM

\* Lines 236-237.
BeginMerge ==
    /\ pcM = "start"
    /\ Len(tables) >= 2
    /\ merged' = <<>>
    /\ ti' = 0
    /\ pcM' = "outer"
    /\ UNCHANGED <<tables, tj, continuation_tables, groups>>
    /\ UNCHANGED notM

\* Lines 239-242: the table at i opens a group.
StartGroup ==
    /\ pcM = "outer"
    /\ ti < Len(tables)
    /\ continuation_tables' = <<tables[ti + 1]>>
    /\ tj' = ti + 1
    /\ pcM' = "inner"
    /\ UNCHANGED <<tables, ti, merged, groups>>
    /\ UNCHANGED notM

\* Lines 244-254: the table at j continues the last table of the group.
AddContinuation ==
    /\ pcM = "inner"
    /\ tj < Len(tables)
    /\ is_table_continuation(continuation_tables[Len(continuation_tables)],
                             tables[tj + 1], tj - ti)
    /\ continuation_tables' = Append(continuation_tables, tables[tj + 1])
    /\ tj' = tj + 1
    /\ UNCHANGED <<tables, ti, merged, groups, pcM>>
    /\ UNCHANGED notM

\* A group is closed and the outer loop goes on at the table after i.
CloseGroupAdvancingByOne ==
    /\ pcM = "inner"
    /\ \/ tj >= Len(tables)
       \/ /\ tj < Len(tables)
          /\ ~is_table_continuation(continuation_tables[Len(continuation_tables)],
                                    tables[tj + 1], tj - ti)
    /\ merged' = Append(merged, IF Len(continuation_tables) > 1
                                THEN merge_table_list(continuation_tables)
                                ELSE tables[ti + 1])
    /\ groups' = Append(groups, continuation_tables)
    /\ ti' = ti + 1
    /\ pcM' = "outer"
    /\ UNCHANGED <<tables, tj, continuation_tables>>
    /\ UNCHANGED notM

\* Lines 244, 255-265: the group ends at the end of the list or at the first
\* table that is no continuation; it is merged or, alone, passed on.
CloseGroup ==
    /\ pcM = "inner"
    /\ \/ tj >= Len(tables)
       \/ /\ tj < Len(tables)
          /\ ~is_table_continuation(continuation_tables[Len(continuation_tables)],
                                    tables[tj + 1], tj - ti)
    /\ merged' = Append(merged, IF Len(continuation_tables) > 1
                                THEN merge_table_list(continuation_tables)
                                ELSE tables[ti + 1])
    /\ groups' = Append(groups, continuation_tables)
    /\ ti' = tj
    /\ pcM' = "outer"
    /\ UNCHANGED <<tables, tj, continuation_tables>>
    /\ UNCHANGED notM

\* Lines 239, 267.
FinishMerge ==
    /\ pcM = "outer"
    /\ ti >= Len(tables)
    /\ pcM' = "done"
    /\ UNCHANGED <<tables, ti, tj, continuation_tables, merged, groups>>
    /\ UNCHANGED notM

\* ---- inputs of the merger
MaxTables == 3
MaxRun == 4

\* Cell texts of the sample rows.
LongText == [k \in 1..31 |-> "a"]

\* The cell of column c (0-based) in a row of the given kind.
RowCell(kind, c) ==
    CASE kind = "hdr"    -> IF c = 0 THEN <<"N", "o">> ELSE <<"I", "t", "e", "m">>
      [] kind = "hdrPad" -> IF c = 0 THEN <<"N", "o", " ">> ELSE <<" ", "I", "t", "e", "m">>
      [] kind = "hdrUp"  -> IF c = 0 THEN <<"N", "O">> ELSE <<"I", "T", "E", "M">>
      [] kind = "hdrB"   -> IF c = 0 THEN <<"I", "d">> ELSE <<"C", "o", "s", "t">>
      [] kind = "num"    -> IF c = 0 THEN <<"7">> ELSE <<"1", "2">>
      [] kind = "price"  -> IF c = 0 THEN <<"8">> ELSE <<"R", "p", "5">>
      [] kind = "long"   -> LongText
      [] kind = "txt"    -> IF c = 0 THEN <<"k">> ELSE <<"a", "b", "c">>

HeaderKinds == {"hdr", "hdrPad", "hdrUp", "hdrB"}

\* A raw table of the analyzer: rows 0..Len(kinds)-1, every cell present.
RawTable(kinds, ncols, page) ==
    [column_count |-> ncols,
     row_count    |-> Len(kinds),
     page         |-> page,
     cells        |-> {[row_index |-> r - 1, column_index |-> c,
                        content |-> RowCell(kinds[r], c)] :
                          r \in 1..Len(kinds), c \in 0..(ncols - 1)},
     is_merged    |-> FALSE]

\* Row kinds of the sample tables, first row first.
ContentShapes ==
    {<<"hdr", "num", "num">>,      \* header and two rows
     <<"hdrPad", "num">>,          \* the same header, padded with blanks
     <<"hdrUp", "txt">>,           \* the same header in upper case
     <<"price", "num">>,           \* no header: the first row holds a price
     <<"long", "txt">>,            \* no header: the first row is long text
     <<"num", "num", "num">>,      \* no header: numbers, as in the first shape
     <<"hdrB", "txt">>}            \* another header over text

\* Shapes whose first rows are the same header.
SameHeaderShapes ==
    {<<"hdr", "num", "num">>, <<"hdrPad", "num">>, <<"hdr">>}

SamplePages == {NoPage, 1, 2, 4}

\* A two-column table on any of the sample pages, a headerless one and a
\* table of one column.
PagedTables ==
    {RawTable(<<"hdr", "num", "num">>, 2, p) : p \in SamplePages}
    \cup {RawTable(<<"price", "num">>, 2, 2), RawTable(<<"hdr", "num">>, 1, 4)}

\* Lists of up to n two-column tables of the given shapes, on the
\* consecutive pages 1, 2, 3, ...
ListsOnConsecutivePages(shapes, n) ==
    UNION {{[k \in 1..m |-> RawTable(f[k], 2, k)] : f \in [1..m -> shapes]} :
              m \in 0..n}

TableLists ==
    BoundedSeq(PagedTables, MaxTables)
    \cup ListsOnConsecutivePages(ContentShapes, MaxTables)
    \cup ListsOnConsecutivePages(SameHeaderShapes, MaxRun)

InitMerge ==
    /\ tables \in TableLists
    /\ ti = 0
    /\ tj = 0
    /\ continuation_tables = <<>>
    /\ merged = <<>>
    /\ groups = <<>>
    /\ pcM = "start"
    /\ IdleAssemble
    /\ IdleIndex
    /\ IdleChunk
    /\ IdleClassify
    /\ IdleDelete
    /\ IdleMemory

NextMerge ==
    \/ ReturnFewTables
    \/ BeginMerge
    \/ StartGroup
    \/ AddContinuation
    \/ CloseGroup
    \/ FinishMerge

SpecMerge == InitMerge /\ [][NextMerge]_vars

\* ---- claims about table merging

\* The number of rows of every table of a list, added up.
RECURSIVE SumRowCounts(_)
SumRowCounts(ts) ==
    IF ts = <<>> THEN 0 ELSE Head(ts).row_count + SumRowCounts(Tail(ts))

\* The input is a run of n >= 2 tables with the same (cleaned) header row,
\* the same column count and page numbers that go up by one.
IsSameHeaderRun(ts) ==
    /\ Len(ts) >= 2
    /\ extract_table_headers(ts[1]) # <<>>
    /\ \A k \in 1..(Len(ts) - 1) :
          /\ extract_table_headers(ts[k + 1]) = extract_table_headers(ts[1])
          /\ ts[k + 1].column_count = ts[k].column_count
          /\ ts[k].page # NoPage
          /\ ts[k + 1].page = ts[k].page + 1

\* The output is one merged table with every row of the input but the
\* header rows of the tables after the first.
MergedIntoOne(ts) ==
    /\ Len(merged) = 1
    /\ merged[1].is_merged
    /\ merged[1].row_count = SumRowCounts(ts) - (Len(ts) - 1)

\* C8 as stated: a run of any number N >= 2 of tables with the same header
\* is merged into one table of sum(rows) - (N-1) rows.
C8_AnyRunMergedIntoOne ==
    (pcM = "done" /\ IsSameHeaderRun(tables)) => MergedIntoOne(tables)

\* C8, amended: a run of N = 2 or N = 3 tables with the same header, equal
\* column counts and consecutive pages is merged into one table whose row
\* count is the sum of the tables' row counts minus the N-1 dropped headers.
C8_ShortRunMergedIntoOne ==
    (pcM = "done" /\ IsSameHeaderRun(tables) /\ Len(tables) <= 3)
        => MergedIntoOne(tables)

\* Three tables with the same header were merged into one.
C8_Witness ==
    /\ pcM = "done"
    /\ IsSameHeaderRun(tables)
    /\ Len(tables) = 3
    /\ Len(merged) = 1
    /\ merged[1].row_count = 4

\* The texts of the sample header rows.
HeaderTexts == {RowCell(kind, c) : kind \in HeaderKinds, c \in 0..1}

\* The first row of the table is a header row.
HasHeaderRow(table) ==
    \A c \in table.cells : c.row_index = 0 => c.content \in HeaderTexts

\* The rows a merge of the group must hold when no data row is lost: all
\* rows of the first table, and of each later table all rows but a header.
RECURSIVE RowsToKeep(_, _)
RowsToKeep(ts, k) ==
    IF k > Len(ts) THEN 0
    ELSE (IF k > 1 /\ HasHeaderRow(ts[k]) THEN ts[k].row_count - 1
          ELSE ts[k].row_count)
         + RowsToKeep(ts, k + 1)

\* C9 as stated: a merged group keeps every data row of its tables, also of
\* a continuation that has no header row; a table with another column count
\* is never pooled into the group.
C9_HeaderlessRowsKept ==
    \A n \in 1..Len(groups) :
        /\ \A k \in 1..Len(groups[n]) :
              groups[n][k].column_count = groups[n][1].column_count
        /\ Len(groups[n]) >= 2 => merged[n].row_count = RowsToKeep(groups[n], 1)

\* C10 (conservative merging): two tables adjacent in a group, the open one
\* or a closed one, have equal column counts and, when both carry a page
\* number, the later one is at most one page after the earlier one.
AdjacentConservative(ts) ==
    \A k \in 1..(Len(ts) - 1) :
        /\ ts[k].column_count = ts[k + 1].column_count
        /\ (ts[k].page # NoPage /\ ts[k + 1].page # NoPage)
              => ts[k + 1].page <= ts[k].page + 1

C10_ConservativeMerging ==
    /\ AdjacentConservative(continuation_tables)
    /\ \A n \in 1..Len(groups) : AdjacentConservative(groups[n])

\* A group of two tables on consecutive pages was closed, and a third table
\* with the same header, two pages on, was left out of it.
C10_Witness ==
    /\ pcM = "done"
    /\ Len(tables) = 3
    /\ Len(groups) = 2
    /\ Len(groups[1]) = 2
    /\ groups[1][1].page # NoPage
    /\ groups[1][2].page = groups[1][1].page + 1
    /\ groups[2][1].page = groups[1][2].page + 2
    /\ extract_table_headers(groups[2][1]) = extract_table_headers(groups[1][2])

----------------------------------------------------------------------------
(* Chunk construction: _create_intelligent_chunks and its helpers *)

\* sep.join(texts)
RECURSIVE Join(_, _)
Join(texts, sep) ==
    IF texts = <<>> THEN <<>>
    ELSE IF Len(texts) = 1 THEN texts[1]
    ELSE texts[1] \o sep \o Join(Tail(texts), sep)

ParagraphBreak == <<"\n", "\n">>

LineBreak == <<"\n">>

\* str(n) of a natural number
RECURSIVE DecimalText(_)
DecimalText(n) ==
    LET digit == <<"0", "1", "2", "3", "4", "5", "6", "7", "8", "9">>[(n % 10) + 1] IN
    IF n < 10 THEN <<digit>> ELSE Append(DecimalText(n \div 10), digit)

\* text.split("\n"): never empty, "" splits into [""]
RECURSIVE SplitLines(_)
SplitLines(text) ==
    IF \A k \in 1..Len(text) : text[k] # "\n" THEN <<text>>
    ELSE LET n == CHOOSE k \in 1..Len(text) :
                    text[k] = "\n" /\ \A m \in 1..(k - 1) : text[m] # "\n"
         IN <<SubSeq(text, 1, n - 1)>> \o SplitLines(SubSeq(text, n + 1, Len(text)))

RECURSIVE SumTokens(_)
SumTokens(parts) ==
    IF parts = <<>> THEN 0 ELSE Head(parts).tokens + SumTokens(Tail(parts))

\* [part["content"] for part in parts]
PartContents(parts) == [k \in 1..Len(parts) |-> parts[k].content]

\* target_chunk_size of _process_section_intelligently
SectionTargetSize == 3500

\* target_size of _split_large_table, and the threshold of line 516
TableTargetSize == 5000

\* A chunk text that begins with the parts, with no header line.
NoBanner(section_header) == <<>>

\* f"=== {section_header} ===\n"
SectionBanner(section_header) == <<"=", "=", "=", " ">> \o section_header \o <<" ", "=", "=", "=", "\n">>

\* Lines 548-560: a section within the target is one chunk.
CompleteSectionChunk(section) ==
    [content  |-> SectionBanner(section.header)
                    \o Join(PartContents(section.content_parts), ParagraphBreak),
     type     |-> section.type,
     metadata |-> [section_header      |-> section.header,
                   section_id          |-> section.section_id,
                   is_complete_section |-> TRUE],
     tokens   |-> section.total_tokens]

\* Lines 571-584 and 595-608: a chunk of some parts of a large section.
PartialSectionChunk(section, current_chunk_parts, current_tokens, chunk_part) ==
    [content  |-> SectionBanner(section.header)
                    \o Join(PartContents(current_chunk_parts), ParagraphBreak),
     type     |-> section.type,
     metadata |-> [section_header     |-> section.header,
                   section_id         |-> section.section_id,
                   is_partial_section |-> TRUE,
                   chunk_part         |-> chunk_part],
     tokens   |-> current_tokens]

\* Lines 566-608: the loop over the parts from the k-th on, then the final
\* chunk.
RECURSIVE SplitSection(_, _, _, _, _)
SplitSection(section, k, current_chunk_parts, current_tokens, chunks) ==
    LET closed == IF current_chunk_parts # <<>>
                  THEN Append(chunks, PartialSectionChunk(section, current_chunk_parts,
                                                          current_tokens, Len(chunks) + 1))
                  ELSE chunks
    IN
    IF k > Len(section.content_parts) THEN closed
    ELSE LET part == section.content_parts[k] IN
         IF current_tokens + part.tokens > SectionTargetSize
         THEN SplitSection(section, k + 1, <<part>>,
                           tiktoken_len(SectionBanner(section.header)) + part.tokens,
                           closed)
         ELSE SplitSection(section, k + 1, Append(current_chunk_parts, part),
                           current_tokens + part.tokens, chunks)

process_section_intelligently(section) ==
    IF section.total_tokens <= SectionTargetSize
    THEN <<CompleteSectionChunk(section)>>
    ELSE SplitSection(section, 1, <<>>, tiktoken_len(SectionBanner(section.header)), <<>>)

\* ---- core values

\* The list of lines 640-641.
CoreValueNames ==
    <<<<"h", "u", "m", "b", "l", "e">>,
      <<"c", "u", "s", "t", "o", "m", "e", "r", " ", "f", "o", "c", "u", "s", "e", "d">>,
      <<"e", "m", "p", "l", "o", "y", "e", "e", " ", "s", "a", "t", "i", "s", "f", "a", "c", "t", "i", "o", "n">>,
      <<"s", "p", "e", "e", "d">>,
      <<"p", "a", "s", "s", "i", "o", "n">>,
      <<"i", "n", "t", "e", "g", "r", "i", "t", "y">>,
      <<"d", "i", "s", "c", "i", "p", "l", "i", "n", "e">>>>

\* The list of lines 493-494.
CoreValueKeywords == Append(CoreValueNames, <<"c", "o", "r", "e", " ", "v", "a", "l", "u", "e", "s">>)

CoreWord == <<"c", "o", "r", "e">>

\* "core" in section_type, for the content types of the classifier
TypeHasCore(section_type) ==
    section_type \in {"core_values_header", "core_value_item", "core_value_content"}

\* Lines 486-496.
is_core_values(section) ==
    \/ TypeHasCore(section.type)
    \/ Contains(Lower(section.header), CoreWord)
    \/ \E k \in 1..Len(section.content_parts) :
          \E n \in 1..Len(CoreValueKeywords) :
              Contains(Lower(section.content_parts[k].content), CoreValueKeywords[n])

\* A collection that leaves out the first part of every section.
CoreSectionContentAfterFirstPart(section) ==
    (IF section.header # <<>> /\ Contains(Lower(section.header), CoreWord)
     THEN <<<<"=", "=", "=", " ">> \o section.header \o <<" ", "=", "=", "=">>>>
     ELSE <<>>)
    \o Tail(PartContents(section.content_parts))

\* Lines 622-630: what one core values section contributes.
CoreSectionContent(section) ==
    LET HasContent(part) == part.content # <<>> IN
    (IF section.header # <<>> /\ Contains(Lower(section.header), CoreWord)
     THEN <<<<"=", "=", "=", " ">> \o section.header \o <<" ", "=", "=", "=">>>>
     ELSE <<>>)
    \o PartContents(SelectSeq(section.content_parts, HasContent))

CoreSectionTokens(section) ==
    LET HasContent(part) == part.content # <<>> IN
    SumTokens(SelectSeq(section.content_parts, HasContent))

\* Lines 633-646: parts of the other sections that mention two core values.
ScatteredParts(section) ==
    LET cv_mentions(part) ==
            Cardinality({n \in 1..Len(CoreValueNames) :
                            Contains(Lower(part.content), CoreValueNames[n])})
        Mentions(part) == cv_mentions(part) >= 2
    IN SelectSeq(section.content_parts, Mentions)

RECURSIVE CoreContent(_)
CoreContent(core_values_sections) ==
    IF core_values_sections = <<>> THEN <<>>
    ELSE CoreSectionContent(Head(core_values_sections))
            \o CoreContent(Tail(core_values_sections))

RECURSIVE CoreTokens(_)
CoreTokens(core_values_sections) ==
    IF core_values_sections = <<>> THEN 0
    ELSE CoreSectionTokens(Head(core_values_sections))
            + CoreTokens(Tail(core_values_sections))

RECURSIVE ScatteredOf(_)
ScatteredOf(secs) ==
    IF secs = <<>> THEN <<>> ELSE ScatteredParts(Head(secs)) \o ScatteredOf(Tail(secs))

\* Lines 612-662; the result is <<>> (None) or <<chunk>>.
create_comprehensive_core_values_chunk(core_values_sections, doc_data) ==
    LET NotCore(section) ==
            \A k \in 1..Len(core_values_sections) : core_values_sections[k] # section
        scattered == ScatteredOf(SelectSeq(doc_data.sections, NotCore))
        all_content == CoreContent(core_values_sections) \o PartContents(scattered)
        total_tokens == CoreTokens(core_values_sections) + SumTokens(scattered)
    IN IF core_values_sections = <<>> \/ all_content = <<>> THEN <<>>
       ELSE <<[content  |-> Join(all_content, ParagraphBreak),
               type     |-> "core_values_comprehensive",
               metadata |-> [is_core_values   |-> TRUE,
                             is_comprehensive |-> TRUE,
                             content_type     |-> "core_values_comprehensive"],
               tokens   |-> total_tokens]>>

\* ---- tables

\* Lines 520-529: a table within the threshold is one chunk.
WholeTableChunk(table) ==
    [content  |-> <<"=", "=", "=", " ", "T", "A", "B", "L", "E", " ", "=", "=", "=", "\n">> \o table.content,
     type     |-> "table",
     metadata |-> [table_id  |-> table.table_id,
                   headers   |-> table.headers,
                   row_count |-> table.row_count],
     tokens   |-> table.tokens]

\* A part that leaves the header line out.
TablePartChunkWithoutHeader(table, current_chunk_lines, current_tokens, part) ==
    [content  |-> <<"=", "=", "=", " ", "T", "A", "B", "L", "E", " ", "(", "P", "a", "r", "t", " ">> \o DecimalText(part) \o <<")", " ", "=", "=", "=", "\n">>
                    \o Join(Tail(current_chunk_lines), LineBreak),
     type     |-> "table",
     metadata |-> [table_id         |-> table.table_id,
                   headers          |-> table.headers,
                   is_partial_table |-> TRUE,
                   part             |-> part,
                   row_count        |-> table.row_count,
                   total_parts      |-> <<>>],
     tokens   |-> current_tokens]

\* Lines 680-695 and 706-721; total_parts is None (<<>>) until line 723.
TablePartChunk(table, current_chunk_lines, current_tokens, part) ==
    [content  |-> <<"=", "=", "=", " ", "T", "A", "B", "L", "E", " ", "(", "P", "a", "r", "t", " ">> \o DecimalText(part) \o <<")", " ", "=", "=", "=", "\n">>
                    \o Join(current_chunk_lines, LineBreak),
     type     |-> "table",
     metadata |-> [table_id         |-> table.table_id,
                   headers          |-> table.headers,
                   is_partial_table |-> TRUE,
                   part             |-> part,
                   row_count        |-> table.row_count,
                   total_parts      |-> <<>>],
     tokens   |-> current_tokens]

\* A new part that loses the line that did not fit.
HeaderLineOnly(headers, line) == <<headers>>

\* Line 698: the lines a new part starts with.
NewPartLines(headers, line) == <<headers, line>>

\* Lines 676-721: the loop over the lines from the k-th on, then the final
\* chunk.
RECURSIVE SplitTableLines(_, _, _, _, _, _)
SplitTableLines(table, lines, k, current_chunk_lines, current_tokens, chunks) ==
    LET headers == lines[1] IN
    IF k > Len(lines)
    THEN IF Len(current_chunk_lines) > 1
         THEN Append(chunks, TablePartChunk(table, current_chunk_lines, current_tokens,
                                            Len(chunks) + 1))
         ELSE chunks
    ELSE LET line == lines[k]
             line_tokens == tiktoken_len(line)
         IN IF current_tokens + line_tokens > TableTargetSize
            THEN SplitTableLines(table, lines, k + 1, NewPartLines(headers, line),
                                 tiktoken_len(headers) + line_tokens,
                                 Append(chunks, TablePartChunk(table, current_chunk_lines,
                                                               current_tokens,
                                                               Len(chunks) + 1)))
            ELSE SplitTableLines(table, lines, k + 1, Append(current_chunk_lines, line),
                                 current_tokens + line_tokens, chunks)

\* Lines 664-725.
split_large_table(table) ==
    LET lines == SplitLines(table.content)
        chunks == SplitTableLines(table, lines, 2, <<lines[1]>>, tiktoken_len(lines[1]), <<>>)
    IN [k \in 1..Len(chunks) |->
           [chunks[k] EXCEPT !.metadata.total_parts = Len(chunks)]]

\* Lines 515-529.
TableChunks(table) ==
    IF table.tokens > TableTargetSize THEN split_large_table(table)
    ELSE <<WholeTableChunk(table)>>

\* ---- the whole chunker

\* A deduplication that keeps the last chunk of each content.
RECURSIVE deduplicate_keeping_last(_)
deduplicate_keeping_last(chunks) ==
    IF chunks = <<>> THEN <<>>
    ELSE IF \E k \in 2..Len(chunks) : chunks[k].content = Head(chunks).content
         THEN deduplicate_keeping_last(Tail(chunks))
         ELSE <<Head(chunks)>> \o deduplicate_keeping_last(Tail(chunks))

\* Lines 727-740.  The md5 digest of a content stands for the content.
RECURSIVE deduplicate_chunks(_)
deduplicate_chunks(chunks) ==
    IF chunks = <<>> THEN <<>>
    ELSE LET rest == deduplicate_chunks(SubSeq(chunks, 1, Len(chunks) - 1))
             last == chunks[Len(chunks)]
         IN IF \E k \in 1..Len(rest) : rest[k].content = last.content
            THEN rest ELSE Append(rest, last)

RECURSIVE SectionChunks(_)
SectionChunks(secs) ==
    IF secs = <<>> THEN <<>>
    ELSE process_section_intelligently(Head(secs)) \o SectionChunks(Tail(secs))

RECURSIVE AllTableChunks(_)
AllTableChunks(raw_tables) ==
    IF raw_tables = <<>> THEN <<>>
    ELSE TableChunks(Head(raw_tables)) \o AllTableChunks(Tail(raw_tables))

\* Lines 473-534.
create_intelligent_chunks(doc_data) ==
    LET NotCore(section) == ~is_core_values(section)
        core_values_sections == SelectSeq(doc_data.sections, is_core_values)
        other_sections == SelectSeq(doc_data.sections, NotCore)
    IN deduplicate_chunks(
          create_comprehensive_core_values_chunk(core_values_sections, doc_data)
          \o SectionChunks(other_sections)
          \o AllTableChunks(doc_data.raw_tables))

----------------------------------------------------------------------------
(* The object store, the index and the upload / incremental indexing calls *)
(* of documentManagement.py                                                *)

\* A dictionary with the entry of key k set to v.
Put(f, k, v) == [n \in DOMAIN f \cup {k} |-> IF n = k THEN v ELSE f[n]]

\* ---- chunk identity and index entries

\* ord(c) of the characters of blob names
AsciiCode(c) ==
    IF c \in UpperSet THEN 64 + (CHOOSE n \in 1..26 : UpperLetters[n] = c)
    ELSE IF c \in LetterSet THEN 96 + (CHOOSE n \in 1..26 : LowerLetters[n] = c)
    ELSE IF c \in Digits THEN 48 + (CHOOSE n \in 0..9 : DecimalText(n) = <<c>>)
    ELSE CASE c = " " -> 32 [] c = "-" -> 45 [] c = "." -> 46
           [] c = "/" -> 47 [] c = "_" -> 95

\* The URL-safe base64 alphabet: A-Z a-z 0-9 - _
Base64Char(n) ==
    IF n < 26 THEN UpperLetters[n + 1]
    ELSE IF n < 52 THEN LowerLetters[n - 25]
    ELSE IF n < 62 THEN DecimalText(n - 52)[1]
    ELSE IF n = 62 THEN "-" ELSE "_"

\* base64.urlsafe_b64encode of a byte string, with its padding
RECURSIVE Base64(_)
Base64(bytes) ==
    IF bytes = <<>> THEN <<>>
    ELSE LET b1 == bytes[1]
             b2 == IF Len(bytes) >= 2 THEN bytes[2] ELSE 0
             b3 == IF Len(bytes) >= 3 THEN bytes[3] ELSE 0
             n  == b1 * 65536 + b2 * 256 + b3
         IN <<Base64Char(n \div 262144), Base64Char((n \div 4096) % 64),
              IF Len(bytes) >= 2 THEN Base64Char((n \div 64) % 64) ELSE "=",
              IF Len(bytes) >= 3 THEN Base64Char(n % 64) ELSE "=">>
            \o (IF Len(bytes) > 3 THEN Base64(SubSeq(bytes, 4, Len(bytes))) ELSE <<>>)

\* rag_modul.py line 21
make_safe_doc_id(blob_name) ==
    Base64([k \in 1..Len(blob_name) |-> AsciiCode(blob_name[k])])

\* f"{_make_safe_doc_id(blob_name)}_{i}"
unique_string_id(blob_name, i) ==
    make_safe_doc_id(blob_name) \o <<"_">> \o DecimalText(i)

\* An identity that also depends on how many entries the index holds.
chunk_id_by_index_size(blob_name, i) ==
    <<"uuid5", unique_string_id(blob_name, i + Cardinality(points))>>

\* str(uuid.uuid5(uuid.NAMESPACE_DNS, unique_string_id)): the name-based
\* digest of the string, collisions of the digest left aside.
chunk_id(blob_name, i) == <<"uuid5", unique_string_id(blob_name, i)>>

\* base_metadata.update(chunk_data.get("metadata", {}))
Updated(base, extra) ==
    [n \in DOMAIN base \cup DOMAIN extra |->
        IF n \in DOMAIN extra THEN extra[n] ELSE base[n]]

\* Lines 216-236: the entry written for the chunk of ordinal i (0-based).
Point(blob_name, i, chunks) ==
    LET chunk_data == chunks[i + 1]
        base_metadata == [source       |-> blob_name,
                          chunk_index  |-> i,
                          content_type |-> chunk_data.type,
                          token_count  |-> chunk_data.tokens,
                          total_chunks |-> Len(chunks)]
    IN [id           |-> chunk_id(blob_name, i),
        page_content |-> chunk_data.content,
        metadata     |-> Updated(base_metadata, chunk_data.metadata)]

\* vectorstoreQ.add_texts with ids: an upsert by id
Upsert(pts, point) == {p \in pts : p.id # point.id} \cup {point}

PointsOfSource(blob_name) == {p \in points : p.metadata.source = blob_name}

\* ---- documents

\* A paragraph of the analyzer kept by the section assembler.
SamplePart(text, type, position) ==
    [content  |-> text,
     type     |-> type,
     role     |-> "none",
     position |-> position,
     tokens   |-> tiktoken_len(text)]

\* What _extract_text_with_docint returns for a document of heading
\* paragraphs only, one per header, and no tables.
AnalysedDocument(headers) ==
    [sections   |-> [k \in 1..Len(headers) |->
                        [header        |-> headers[k],
                         type          |-> "heading",
                         content_parts |-> <<SamplePart(headers[k], "heading", k - 1)>>,
                         section_id    |-> k - 1,
                         total_tokens  |-> tiktoken_len(headers[k])]],
     raw_tables |-> <<>>]

\* Lines 281-284: what is returned when the analysis fails.
FailedAnalysis == [sections |-> <<>>, raw_tables |-> <<>>]

\* The contents of sample files: a file of one heading and a file of three
\* headings.
DocumentBytes == {"brief", "long"}

extract_text_with_docint(content_bytes) ==
    CASE content_bytes = "brief" -> AnalysedDocument(<<<<"p">>>>)
      [] content_bytes = "long"  -> AnalysedDocument(<<<<"q">>, <<"r">>, <<"s">>>>)

\* ---- names

\* Sample blob names, in the order list_blobs returns them.
NamesInOrder == <<<<"h", "/", "c">>, <<"s", "/", "a">>, <<"s", "/", "b">>>>

FileNames == {<<"a">>, <<"b">>}

StartsWith(name, prefix) ==
    Len(prefix) <= Len(name) /\ SubSeq(name, 1, Len(prefix)) = prefix

\* if not prefix.endswith("/"): prefix += "/"
WithSlash(prefix) ==
    IF prefix # <<>> /\ prefix[Len(prefix)] = "/" THEN prefix ELSE Append(prefix, "/")

\* list(blob_container.list_blobs(name_starts_with=prefix)), names only
ListedNames(prefix) ==
    LET Listed(name) == name \in DOMAIN blobs /\ StartsWith(name, prefix)
    IN SelectSeq(NamesInOrder, Listed)

Range(s) == {s[k] : k \in 1..Len(s)}

\* ---- the index scan

\* limit of the scroll request
ScrollLimit == 1000

\* The sources of the entries that documents of another corpus have in the
\* same collection.
OtherSources == {<<"h", "/", "z">>}

\* Every source carried by an entry of the collection.
AllSources ==
    {p.metadata.source : p \in points}
        \cup (IF other_points > 0 THEN OtherSources ELSE {})

\* Lines 129-145: the sources read off the one page the scroll request
\* returns.  The page holds every entry when there are at most ScrollLimit,
\* and otherwise the first ScrollLimit in the order of the entries' ids,
\* which is the order of digests: any ScrollLimit entries.
ScannedSourceSets ==
    IF other_points + Cardinality(points) <= ScrollLimit THEN {AllSources}
    ELSE {{p.metadata.source : p \in own}
              \cup (IF Cardinality(own) < ScrollLimit THEN OtherSources ELSE {}) :
          own \in {S \in SUBSET points :
                      /\ Cardinality(S) <= ScrollLimit
                      /\ ScrollLimit - Cardinality(S) <= other_points}}

\* ---- sessions

\* A never taken branch.
TakesSpecificBranchNever(specific_files) == FALSE

\* Line 172, `if specific_files:`; the argument is <<>> (None) or <<list>>.
TakesSpecificBranch(specific_files) ==
    specific_files # <<>> /\ specific_files[1] # <<>>

\* process_and_index_documents_incremental entered with the given arguments
\* by the session whose record is r.
Entered(r, prefix, specific_files) ==
    IF TakesSpecificBranch(specific_files)
    THEN [r EXCEPT !.prefix = prefix, !.work = specific_files[1], !.k = 0, !.pc = "fetch"]
    ELSE [r EXCEPT !.prefix = prefix, !.pc = "scan"]

Do(s, r) == ses' = [ses EXCEPT ![s] = r]

CurrentName(r) == r.work[r.k + 1]

\* ---- calls

\* process_and_index_documents_incremental(prefix, ..., specific_files)
StartReconcile(s, prefix, specific_files) ==
    /\ ses[s].pc = "idle"
    /\ calls < MaxCalls
    /\ calls' = calls + 1
    /\ Do(s, Entered([IdleSession EXCEPT !.call = "reconcile",
                                         !.specific_files = specific_files],
                     prefix, specific_files))
    /\ UNCHANGED <<blobs, points, other_points, index_log>>
    /\ UNCHANGED notI

\* Line 266 with lines 129-151: the scan of the index answers.
ScanIndex(s) ==
    /\ ses[s].pc = "scan"
    /\ \E sources \in ScannedSourceSets :
          Do(s, [ses[s] EXCEPT !.indexed_documents = sources,
                               !.scanned = TRUE,
                               !.sources_at_scan = AllSources,
                               !.pc = "list"])
    /\ UNCHANGED <<blobs, points, other_points, index_log, calls>>
    /\ UNCHANGED notI

\* Line 266 with lines 153-155: the scan raises, and the helper returns an
\* empty set.
ScanIndexFails(s) ==
    /\ ses[s].pc = "scan"
    /\ Do(s, [ses[s] EXCEPT !.indexed_documents = {},
                            !.scanned = TRUE,
                            !.scan_failed = TRUE,
                            !.sources_at_scan = AllSources,
                            !.pc = "list"])
    /\ UNCHANGED <<blobs, points, other_points, index_log, calls>>
    /\ UNCHANGED notI

\* A filter that also leaves out the first name it would keep.
NewDocumentsButFirst(blob_names, indexed_documents) ==
    LET IsNew(blob_name) == blob_name \notin indexed_documents
        kept == SelectSeq(blob_names, IsNew)
    IN IF kept = <<>> THEN <<>> ELSE Tail(kept)

\* Lines 278-284.
NewDocuments(blob_names, indexed_documents) ==
    LET IsNew(blob_name) == blob_name \notin indexed_documents
    IN SelectSeq(blob_names, IsNew)

\* Lines 269-299: the listing answers and names no new document.
ListBlobsNothingNew(s) ==
    LET r == ses[s]
        blob_names == ListedNames(WithSlash(r.prefix))
    IN
    /\ r.pc = "list"
    /\ NewDocuments(blob_names, r.indexed_documents) = <<>>
    /\ Do(s, [r EXCEPT !.prefix = WithSlash(r.prefix),
                       !.blob_names = blob_names,
                       !.listed = TRUE,
                       !.skipped = Len(blob_names),
                       !.result = "success",
                       !.pc = "done"])
    /\ UNCHANGED <<blobs, points, other_points, index_log, calls>>
    /\ UNCHANGED notI

\* Lines 269-284 and 301-309: the listing answers, and the call is repeated
\* with the new documents as its specific files.
ListBlobsAndIndexNew(s) ==
    LET r == ses[s]
        blob_names == ListedNames(WithSlash(r.prefix))
        new_documents == NewDocuments(blob_names, r.indexed_documents)
    IN
    /\ r.pc = "list"
    /\ new_documents # <<>>
    /\ Do(s, [r EXCEPT !.prefix = WithSlash(r.prefix),
                       !.blob_names = blob_names,
                       !.listed = TRUE,
                       !.work = new_documents,
                       !.k = 0,
                       !.pc = "fetch"])
    /\ UNCHANGED <<blobs, points, other_points, index_log, calls>>
    /\ UNCHANGED notI

\* Line 272 raises: lines 318-326.
ListBlobsFails(s) ==
    /\ ses[s].pc = "list"
    /\ Do(s, [ses[s] EXCEPT !.prefix = WithSlash(ses[s].prefix),
                            !.list_failed = TRUE,
                            !.result = "failure",
                            !.pc = "done"])
    /\ UNCHANGED <<blobs, points, other_points, index_log, calls>>
    /\ UNCHANGED notI

\* Lines 188-191: the blob of the next name does not exist.
SkipMissingBlob(s) ==
    LET r == ses[s] IN
    /\ r.pc = "fetch"
    /\ r.k < Len(r.work)
    /\ r.call # "full"
    /\ CurrentName(r) \notin DOMAIN blobs
    /\ Do(s, [r EXCEPT !.skipped = @ + 1, !.k = @ + 1])
    /\ UNCHANGED <<blobs, points, other_points, index_log, calls>>
    /\ UNCHANGED notI

\* Lines 193-211: the analysis (which may fail) yields nothing, or no chunk
\* comes of it.
SkipEmptyDocument(s) ==
    LET r == ses[s] IN
    /\ r.pc = "fetch"
    /\ r.k < Len(r.work)
    /\ CurrentName(r) \in DOMAIN blobs
    /\ \E doc_data \in {extract_text_with_docint(blobs[CurrentName(r)]), FailedAnalysis} :
          \/ doc_data.sections = <<>> /\ doc_data.raw_tables = <<>>
          \/ create_intelligent_chunks(doc_data) = <<>>
    /\ Do(s, [r EXCEPT !.skipped = @ + 1, !.k = @ + 1,
                       !.analysed = @ \cup {CurrentName(r)}])
    /\ UNCHANGED <<blobs, points, other_points, index_log, calls>>
    /\ UNCHANGED notI

\* Lines 193-214: the document is downloaded, analysed and chunked.
BeginDocument(s) ==
    LET r == ses[s] IN
    /\ r.pc = "fetch"
    /\ r.k < Len(r.work)
    /\ CurrentName(r) \in DOMAIN blobs
    /\ LET content_bytes == blobs[CurrentName(r)]
           doc_data == extract_text_with_docint(content_bytes)
           chunks == create_intelligent_chunks(doc_data)
       IN /\ doc_data.sections # <<>> \/ doc_data.raw_tables # <<>>
          /\ chunks # <<>>
          /\ Do(s, [r EXCEPT !.content = <<content_bytes>>,
                             !.chunks = chunks,
                             !.ci = 0,
                             !.write_failed = FALSE,
                             !.analysed = @ \cup {CurrentName(r)},
                             !.pc = "write"])
    /\ UNCHANGED <<blobs, points, other_points, index_log, calls>>
    /\ UNCHANGED notI

\* A failure of a document that ends the run.
DocumentFailsEndingRun(s) ==
    LET r == ses[s] IN
    /\ r.pc = "fetch"
    /\ r.k < Len(r.work)
    /\ CurrentName(r) \in DOMAIN blobs \/ r.call = "full"
    /\ Do(s, [r EXCEPT !.result = "failure", !.pc = "done"])
    /\ UNCHANGED <<blobs, points, other_points, index_log, calls>>
    /\ UNCHANGED notI

\* Lines 246-249 (and 817-820 of rag_modul.py): the download raises; in
\* process_and_index_docs, which has no test of existence, also for a blob
\* that is gone.
DocumentFails(s) ==
    LET r == ses[s] IN
    /\ r.pc = "fetch"
    /\ r.k < Len(r.work)
    /\ CurrentName(r) \in DOMAIN blobs \/ r.call = "full"
    /\ Do(s, [r EXCEPT !.errors = Append(@, CurrentName(r)), !.k = @ + 1])
    /\ UNCHANGED <<blobs, points, other_points, index_log, calls>>
    /\ UNCHANGED notI

\* A write under an identifier of the caller's own.
WriteChunkUnderOwnId(s) ==
    LET r == ses[s] IN
    /\ r.pc = "write"
    /\ r.ci < Len(r.chunks)
    /\ points' = Upsert(points, [Point(CurrentName(r), r.ci, r.chunks) EXCEPT
                                    !.id = <<"uuid4", s, CurrentName(r), r.ci>>])
    /\ Do(s, [r EXCEPT !.ci = @ + 1, !.writes = @ + 1])
    /\ UNCHANGED <<blobs, other_points, index_log, calls>>
    /\ UNCHANGED notI

\* Lines 216-237: the chunk of ordinal ci is written.
WriteChunk(s) ==
    LET r == ses[s] IN
    /\ r.pc = "write"
    /\ r.ci < Len(r.chunks)
    /\ points' = Upsert(points, Point(CurrentName(r), r.ci, r.chunks))
    /\ Do(s, [r EXCEPT !.ci = @ + 1, !.writes = @ + 1])
    /\ UNCHANGED <<blobs, other_points, index_log, calls>>
    /\ UNCHANGED notI

\* A failed write that ends the handling of the document.
WriteChunkFailsEndingDocument(s) ==
    LET r == ses[s] IN
    /\ r.pc = "write"
    /\ r.ci < Len(r.chunks)
    /\ Do(s, [r EXCEPT !.errors = Append(@, CurrentName(r)),
                       !.k = @ + 1,
                       !.write_failed = TRUE,
                       !.chunks = <<>>,
                       !.content = <<>>,
                       !.ci = 0,
                       !.pc = "fetch"])
    /\ UNCHANGED <<blobs, points, other_points, index_log, calls>>
    /\ UNCHANGED notI

\* Lines 238-240: the write raises, and the loop goes on.
WriteChunkFails(s) ==
    LET r == ses[s] IN
    /\ r.pc = "write"
    /\ r.ci < Len(r.chunks)
    /\ Do(s, [r EXCEPT !.ci = @ + 1, !.write_failed = TRUE])
    /\ UNCHANGED <<blobs, points, other_points, index_log, calls>>
    /\ UNCHANGED notI

\* What is remembered of the latest indexing of a document whose writes all
\* succeeded: the content, the identifiers of its chunks in order, the
\* entries of the source afterwards, and, when the indexing before it was of
\* the same content, the identifiers and the entries of that one.
Logged(blob_name, content, chunks) ==
    LET now == PointsOfSource(blob_name)
        ids == [n \in 1..Len(chunks) |-> Point(blob_name, n - 1, chunks).id]
        repeated == /\ blob_name \in DOMAIN index_log
                    /\ index_log[blob_name] # <<>>
                    /\ index_log[blob_name][1].content = content
    IN <<[content    |-> content,
          ids        |-> ids,
          entries    |-> now,
          repeated   |-> repeated,
          before_ids |-> IF repeated THEN index_log[blob_name][1].ids ELSE ids,
          before     |-> IF repeated THEN index_log[blob_name][1].entries ELSE now]>>

\* Lines 242-244: the loop over the chunks is over.
FinishDocument(s) ==
    LET r == ses[s] IN
    /\ r.pc = "write"
    /\ r.ci = Len(r.chunks)
    /\ Do(s, [r EXCEPT !.total_chunks = @ + Len(r.chunks),
                       !.indexed = @ + 1,
                       !.k = @ + 1,
                       !.done_ok = IF r.write_failed THEN @ \ {CurrentName(r)}
                                   ELSE @ \cup {CurrentName(r)},
                       !.chunks = <<>>,
                       !.content = <<>>,
                       !.ci = 0,
                       !.pc = "fetch"])
    /\ index_log' = Put(index_log, CurrentName(r),
                        IF r.write_failed THEN <<>>
                        ELSE Logged(CurrentName(r), r.content[1], r.chunks))
    /\ UNCHANGED <<blobs, points, other_points, calls>>
    /\ UNCHANGED notI

\* Lines 251-259 and 311-316: every name was handled.
FinishRun(s) ==
    LET r == ses[s] IN
    /\ r.pc = "fetch"
    /\ r.k = Len(r.work)
    /\ Do(s, [r EXCEPT !.result = "success", !.pc = "done"])
    /\ UNCHANGED <<blobs, points, other_points, index_log, calls>>
    /\ UNCHANGED notI

\* The call returns to its caller.
Return(s) ==
    /\ ses[s].pc = "done"
    /\ Do(s, IdleSession)
    /\ UNCHANGED <<blobs, points, other_points, index_log, calls>>
    /\ UNCHANGED notI

\* upload_and_index_complete_incremental(files, prefix, ...); a file is a
\* name and a content.
StartWorkflow(s, files, prefix) ==
    /\ ses[s].pc = "idle"
    /\ calls < MaxCalls
    /\ calls' = calls + 1
    /\ Do(s, [IdleSession EXCEPT !.call = "workflow", !.files = files,
                                 !.prefix = prefix, !.pc = "upload"])
    /\ UNCHANGED <<blobs, points, other_points, index_log>>
    /\ UNCHANGED notI

\* f"{prefix}{fname}" of batch_upload_files, lines 73-74 and 93
UploadName(r) == WithSlash(r.prefix) \o r.files[r.fi + 1].fname

\* Lines 95-100 with 41-62: the next file is uploaded, replacing the blob of
\* its name if there is one.
UploadFile(s) ==
    LET r == ses[s] IN
    /\ r.pc = "upload"
    /\ r.fi < Len(r.files)
    /\ blobs' = Put(blobs, UploadName(r), r.files[r.fi + 1].content)
    /\ Do(s, [r EXCEPT !.fi = @ + 1,
                       !.uploaded_files = Append(@, UploadName(r)),
                       !.overwrote = IF UploadName(r) \in DOMAIN blobs
                                     THEN @ \cup {UploadName(r)} ELSE @])
    /\ UNCHANGED <<points, other_points, index_log, calls>>
    /\ UNCHANGED notI

\* Lines 101-106 with 63-69: the upload raises.
UploadFileFails(s) ==
    LET r == ses[s] IN
    /\ r.pc = "upload"
    /\ r.fi < Len(r.files)
    /\ Do(s, [r EXCEPT !.fi = @ + 1, !.failed_uploads = @ + 1])
    /\ UNCHANGED <<blobs, points, other_points, index_log, calls>>
    /\ UNCHANGED notI

\* Lines 352-363: the uploaded files are indexed as specific files.
WorkflowIndex(s) ==
    LET r == ses[s] IN
    /\ r.pc = "upload"
    /\ r.fi = Len(r.files)
    /\ Len(r.uploaded_files) > 0
    /\ Do(s, Entered([r EXCEPT !.specific_files = <<r.uploaded_files>>],
                     r.prefix, <<r.uploaded_files>>))
    /\ UNCHANGED <<blobs, points, other_points, index_log, calls>>
    /\ UNCHANGED notI

\* Lines 367-369: nothing was uploaded, and indexing is skipped.
WorkflowSkipsIndex(s) ==
    LET r == ses[s] IN
    /\ r.pc = "upload"
    /\ r.fi = Len(r.files)
    /\ Len(r.uploaded_files) = 0
    /\ Do(s, [r EXCEPT !.result = "failure", !.pc = "done"])
    /\ UNCHANGED <<blobs, points, other_points, index_log, calls>>
    /\ UNCHANGED notI

\* ---- inputs of the calls

Prefixes == {<<"s">>, <<"s", "/">>}

\* The specific_files arguments: None, [] and lists of names.
SpecificFileArguments ==
    {<<>>, <<<<>>>>,
     <<<<NamesInOrder[2]>>>>, <<<<NamesInOrder[3]>>>>,
     <<<<NamesInOrder[2], NamesInOrder[3]>>>>}

\* The files arguments: up to one file.
UploadedFileLists ==
    BoundedSeq([fname : FileNames, content : DocumentBytes], 1)

\* The container when the calls begin: a blob outside the prefix, and any
\* blobs under the other sample names.
InitialContainers ==
    {Put(c, NamesInOrder[1], "brief") :
        c \in UNION {[present -> DocumentBytes] :
                        present \in SUBSET {NamesInOrder[2], NamesInOrder[3]}}}

InitIndex ==
    /\ blobs \in InitialContainers
    /\ points = {}
    /\ other_points \in {0, ScrollLimit}
    /\ ses = [s \in {1} |-> IdleSession]
    /\ index_log = <<>>
    /\ calls = 0
    /\ IdleAssemble
    /\ IdleMerge
    /\ IdleChunk
    /\ IdleClassify
    /\ IdleDelete
    /\ IdleMemory

NextIndex ==
    \/ \E s \in DOMAIN ses, prefix \in Prefixes, specific_files \in SpecificFileArguments :
          StartReconcile(s, prefix, specific_files)
    \/ \E s \in DOMAIN ses : ScanIndex(s)
    \/ \E s \in DOMAIN ses : ScanIndexFails(s)
    \/ \E s \in DOMAIN ses : ListBlobsNothingNew(s)
    \/ \E s \in DOMAIN ses : ListBlobsAndIndexNew(s)
    \/ \E s \in DOMAIN ses : ListBlobsFails(s)
    \/ \E s \in DOMAIN ses : SkipMissingBlob(s)
    \/ \E s \in DOMAIN ses : SkipEmptyDocument(s)
    \/ \E s \in DOMAIN ses : BeginDocument(s)
    \/ \E s \in DOMAIN ses : DocumentFails(s)
    \/ \E s \in DOMAIN ses : WriteChunk(s)
    \/ \E s \in DOMAIN ses : WriteChunkFails(s)
    \/ \E s \in DOMAIN ses : FinishDocument(s)
    \/ \E s \in DOMAIN ses : FinishRun(s)
    \/ \E s \in DOMAIN ses : Return(s)
    \/ \E s \in DOMAIN ses, files \in UploadedFileLists, prefix \in Prefixes :
          StartWorkflow(s, files, prefix)
    \/ \E s \in DOMAIN ses : UploadFile(s)
    \/ \E s \in DOMAIN ses : UploadFileFails(s)
    \/ \E s \in DOMAIN ses : WorkflowIndex(s)
    \/ \E s \in DOMAIN ses : WorkflowSkipsIndex(s)

SpecIndex == InitIndex /\ [][NextIndex]_vars

\* The same calls, from the states in which one call has returned without
\* changing the store or the index (a run whose listing failed, say).
InitLaterCall ==
    /\ blobs \in InitialContainers
    /\ points = {}
    /\ other_points \in {0, ScrollLimit}
    /\ ses = [s \in {1} |-> IdleSession]
    /\ index_log = <<>>
    /\ calls = 1
    /\ IdleAssemble
    /\ IdleMerge
    /\ IdleChunk
    /\ IdleClassify
    /\ IdleDelete
    /\ IdleMemory

SpecLaterCall == InitLaterCall /\ [][NextIndex]_vars

\* process_and_index_docs(prefix) of rag_modul.py, lines 745-756: the blobs
\* under the prefix, or all blobs for the empty prefix, are the documents of
\* the run.  The prefix is taken as given, with no "/" added.
StartFullIndex(s, prefix) ==
    /\ ses[s].pc = "idle"
    /\ calls < MaxCalls
    /\ calls' = calls + 1
    /\ Do(s, [IdleSession EXCEPT !.call = "full",
                                 !.prefix = prefix,
                                 !.blob_names = ListedNames(prefix),
                                 !.listed = TRUE,
                                 !.work = ListedNames(prefix),
                                 !.k = 0,
                                 !.pc = "fetch"])
    /\ UNCHANGED <<blobs, points, other_points, index_log>>
    /\ UNCHANGED notI

\* Lines 750-756 of rag_modul.py: the listing raises, and nothing catches it.
FullListingFails(s, prefix) ==
    /\ ses[s].pc = "idle"
    /\ calls < MaxCalls
    /\ calls' = calls + 1
    /\ Do(s, [IdleSession EXCEPT !.call = "full",
                                 !.prefix = prefix,
                                 !.list_failed = TRUE,
                                 !.result = "raised",
                                 !.pc = "done"])
    /\ UNCHANGED <<blobs, points, other_points, index_log>>
    /\ UNCHANGED notI

\* The prefix arguments of process_and_index_docs: "" and "s".
FullPrefixes == {<<>>, <<"s">>}

\* The calls of documentManagement.py and process_and_index_docs.
NextRuns ==
    \/ \E s \in DOMAIN ses, prefix \in Prefixes, specific_files \in SpecificFileArguments :
          StartReconcile(s, prefix, specific_files)
    \/ \E s \in DOMAIN ses : ScanIndex(s)
    \/ \E s \in DOMAIN ses : ScanIndexFails(s)
    \/ \E s \in DOMAIN ses : ListBlobsNothingNew(s)
    \/ \E s \in DOMAIN ses : ListBlobsAndIndexNew(s)
    \/ \E s \in DOMAIN ses : ListBlobsFails(s)
    \/ \E s \in DOMAIN ses : SkipMissingBlob(s)
    \/ \E s \in DOMAIN ses : SkipEmptyDocument(s)
    \/ \E s \in DOMAIN ses : BeginDocument(s)
    \/ \E s \in DOMAIN ses : DocumentFails(s)
    \/ \E s \in DOMAIN ses : WriteChunk(s)
    \/ \E s \in DOMAIN ses : WriteChunkFails(s)
    \/ \E s \in DOMAIN ses : FinishDocument(s)
    \/ \E s \in DOMAIN ses : FinishRun(s)
    \/ \E s \in DOMAIN ses : Return(s)
    \/ \E s \in DOMAIN ses, files \in UploadedFileLists, prefix \in Prefixes :
          StartWorkflow(s, files, prefix)
    \/ \E s \in DOMAIN ses : UploadFile(s)
    \/ \E s \in DOMAIN ses : UploadFileFails(s)
    \/ \E s \in DOMAIN ses : WorkflowIndex(s)
    \/ \E s \in DOMAIN ses : WorkflowSkipsIndex(s)
    \/ \E s \in DOMAIN ses, prefix \in FullPrefixes : StartFullIndex(s, prefix)
    \/ \E s \in DOMAIN ses, prefix \in FullPrefixes : FullListingFails(s, prefix)

SpecRuns == InitLaterCall /\ [][NextRuns]_vars

\* ---- claims about uploading and indexing

\* The entries the chunks of a content make for a source.
ExpectedPoints(blob_name, content_bytes) ==
    LET chunks == create_intelligent_chunks(extract_text_with_docint(content_bytes))
    IN {Point(blob_name, i, chunks) : i \in 0..(Len(chunks) - 1)}

\* C2 (overwrite and re-index): when an upload-and-index call has replaced
\* the blob of a name and indexed it with every write succeeding, the entries
\* of that source are exactly the chunks of the new content, and none of an
\* earlier version remains.
C2_ReindexLeavesNewChunksOnly ==
    \A s \in DOMAIN ses :
        LET r == ses[s] IN
        (r.call = "workflow" /\ r.pc = "done" /\ r.result = "success") =>
            \A blob_name \in r.overwrote \cap r.done_ok :
                PointsOfSource(blob_name) = ExpectedPoints(blob_name, blobs[blob_name])

\* C3 (incremental work set): once an incremental call has listed the store,
\* its work set is the names listed under the prefix minus the sources the
\* index held at the scan; and when each listed name was among those
\* sources, the call is over with no document analysed and no entry written.
C3_WorkSetIsStoreMinusIndex ==
    \A s \in DOMAIN ses :
        LET r == ses[s] IN
        r.listed =>
            /\ Range(r.work) = Range(r.blob_names) \ r.sources_at_scan
            /\ Range(r.blob_names) \subseteq r.sources_at_scan =>
                  r.pc = "done" /\ r.analysed = {} /\ r.writes = 0

\* C4 (failed scan or listing): a call whose index scan or store listing
\* failed analyses no document and writes no entry, and ends with an error
\* result.
C4_FailedScanOrListingStops ==
    \A s \in DOMAIN ses :
        LET r == ses[s] IN
        (r.scan_failed \/ r.list_failed) =>
            /\ r.analysed = {}
            /\ r.writes = 0
            /\ r.pc = "done" => r.result = "failure"

\* C5 (complete scan): the set of indexed sources a successful scan builds is
\* the set of every source carried by an entry of the index, however many
\* entries the index holds.
C5_ScanFindsEverySource ==
    \A s \in DOMAIN ses :
        LET r == ses[s] IN
        (r.scanned /\ ~r.scan_failed) => r.indexed_documents = r.sources_at_scan

\* A call that was given a list of specific files and has entered the
\* reconciler.
GivenSpecificFiles(r) ==
    r.pc \in {"scan", "list", "fetch", "write", "done"} /\ r.specific_files # <<>>

\* The work set is the given list, only names of it are analysed, and neither
\* the index nor the store is scanned.
WorksOnGivenFilesOnly(r) ==
    /\ r.work = r.specific_files[1]
    /\ r.analysed \subseteq Range(r.specific_files[1])
    /\ ~r.scanned
    /\ ~r.listed
    /\ r.pc \notin {"scan", "list"}

\* C6 as stated (explicit set): whenever a list of specific files is given,
\* the work set is that list and nothing is scanned.
C6_AnyGivenSetIsWorkSet ==
    \A s \in DOMAIN ses :
        GivenSpecificFiles(ses[s]) => WorksOnGivenFilesOnly(ses[s])

\* C6 (explicit set): whenever a non-empty list of specific files is given,
\* the work set is that list, only names of it are analysed, and neither the
\* index scan nor the store listing is performed.
C6_NonEmptyGivenSetIsWorkSet ==
    \A s \in DOMAIN ses :
        (GivenSpecificFiles(ses[s]) /\ ses[s].specific_files[1] # <<>>) =>
            WorksOnGivenFilesOnly(ses[s])

\* A call given one name has indexed it and is over, while another blob under
\* the prefix has no entry in the index.
C6_Witness ==
    \E s \in DOMAIN ses :
        /\ ses[s].pc = "done"
        /\ ses[s].call = "reconcile"
        /\ ses[s].specific_files = <<<<NamesInOrder[2]>>>>
        /\ ses[s].indexed = 1
        /\ PointsOfSource(NamesInOrder[2]) # {}
        /\ NamesInOrder[3] \in DOMAIN blobs
        /\ PointsOfSource(NamesInOrder[3]) = {}

\* C7 (idempotent chunk identity): when a document is indexed with every
\* write succeeding and its previous indexing, also with every write
\* succeeding, was of the same content, the identifiers of the chunks are the
\* same in the same order, and the entries of the source after the second
\* indexing are those after the first.
C7_ReindexingSameContentChangesNothing ==
    \A blob_name \in DOMAIN index_log :
        (index_log[blob_name] # <<>> /\ index_log[blob_name][1].repeated) =>
            /\ index_log[blob_name][1].ids = index_log[blob_name][1].before_ids
            /\ index_log[blob_name][1].entries = index_log[blob_name][1].before

\* A document of three chunks was indexed twice in a row.
C7_Witness ==
    \E blob_name \in DOMAIN index_log :
        /\ index_log[blob_name] # <<>>
        /\ index_log[blob_name][1].repeated
        /\ Cardinality(index_log[blob_name][1].entries) = 3
        /\ Len(index_log[blob_name][1].ids) = 3

----------------------------------------------------------------------------
(* The chunk construction of _create_intelligent_chunks, one step per      *)
(* section and per table                                                   *)

\* A division that leaves the core values sections among the others too.
PartitionKeepingAll ==
    /\ pcC = "partition"
    /\ cv_sections' = SelectSeq(input_doc.sections, is_core_values)
    /\ rest_sections' = input_doc.sections
    /\ pcC' = "core"
    /\ UNCHANGED <<input_doc, core_chunk, section_chunks, table_chunks, built_chunks,
                   unique_chunks>>
    /\ UNCHANGED notC

\* Lines 478-501: the sections are divided into core values sections and
\* the others.
PartitionSections ==
    /\ pcC = "partition"
    /\ cv_sections' = SelectSeq(input_doc.sections, is_core_values)
    /\ rest_sections' = SelectSeq(input_doc.sections, LAMBDA section : ~is_core_values(section))
    /\ pcC' = "core"
    /\ UNCHANGED <<input_doc, core_chunk, section_chunks, table_chunks, built_chunks,
                   unique_chunks>>
    /\ UNCHANGED notC

\* Lines 504-507: there are core values sections.
AggregateCoreValues ==
    /\ pcC = "core"
    /\ cv_sections # <<>>
    /\ core_chunk' = create_comprehensive_core_values_chunk(cv_sections, input_doc)
    /\ built_chunks' = built_chunks \o core_chunk'
    /\ pcC' = "build"
    /\ UNCHANGED <<input_doc, cv_sections, rest_sections, section_chunks, table_chunks,
                   unique_chunks>>
    /\ UNCHANGED notC

\* Line 504, no core values section.
NoCoreValues ==
    /\ pcC = "core"
    /\ cv_sections = <<>>
    /\ pcC' = "build"
    /\ UNCHANGED <<input_doc, cv_sections, rest_sections, core_chunk, section_chunks,
                   table_chunks, built_chunks, unique_chunks>>
    /\ UNCHANGED notC

\* The section the loop of line 510 handles next.
NextSection == rest_sections[Len(section_chunks) + 1]

\* Lines 510-512 with the branch of line 547: a section within the target.
ChunkSmallSection ==
    /\ pcC = "build"
    /\ Len(section_chunks) < Len(rest_sections)
    /\ NextSection.total_tokens <= SectionTargetSize
    /\ section_chunks' = Append(section_chunks, process_section_intelligently(NextSection))
    /\ built_chunks' = built_chunks \o process_section_intelligently(NextSection)
    /\ UNCHANGED <<input_doc, cv_sections, rest_sections, core_chunk, table_chunks,
                   unique_chunks, pcC>>
    /\ UNCHANGED notC

\* Lines 510-512 with the branch of line 561: a section over the target.
ChunkLargeSection ==
    /\ pcC = "build"
    /\ Len(section_chunks) < Len(rest_sections)
    /\ NextSection.total_tokens > SectionTargetSize
    /\ section_chunks' = Append(section_chunks, process_section_intelligently(NextSection))
    /\ built_chunks' = built_chunks \o process_section_intelligently(NextSection)
    /\ UNCHANGED <<input_doc, cv_sections, rest_sections, core_chunk, table_chunks,
                   unique_chunks, pcC>>
    /\ UNCHANGED notC

\* The table the loop of line 515 handles next.
NextTable == input_doc.raw_tables[Len(table_chunks) + 1]

\* Lines 519-529: a table within the threshold is one chunk.
ChunkSmallTable ==
    /\ pcC = "build"
    /\ Len(section_chunks) = Len(rest_sections)
    /\ Len(table_chunks) < Len(input_doc.raw_tables)
    /\ NextTable.tokens <= TableTargetSize
    /\ table_chunks' = Append(table_chunks, <<WholeTableChunk(NextTable)>>)
    /\ built_chunks' = Append(built_chunks, WholeTableChunk(NextTable))
    /\ UNCHANGED <<input_doc, cv_sections, rest_sections, core_chunk, section_chunks,
                   unique_chunks, pcC>>
    /\ UNCHANGED notC

\* Lines 516-518: a table over the threshold is split.
ChunkLargeTable ==
    /\ pcC = "build"
    /\ Len(section_chunks) = Len(rest_sections)
    /\ Len(table_chunks) < Len(input_doc.raw_tables)
    /\ NextTable.tokens > TableTargetSize
    /\ table_chunks' = Append(table_chunks, split_large_table(NextTable))
    /\ built_chunks' = built_chunks \o split_large_table(NextTable)
    /\ UNCHANGED <<input_doc, cv_sections, rest_sections, core_chunk, section_chunks,
                   unique_chunks, pcC>>
    /\ UNCHANGED notC

\* Lines 532-534.
Deduplicate ==
    /\ pcC = "build"
    /\ Len(section_chunks) = Len(rest_sections)
    /\ Len(table_chunks) = Len(input_doc.raw_tables)
    /\ unique_chunks' = deduplicate_chunks(built_chunks)
    /\ pcC' = "done"
    /\ UNCHANGED <<input_doc, cv_sections, rest_sections, core_chunk, section_chunks,
                   table_chunks, built_chunks>>
    /\ UNCHANGED notC

\* ---- the documents given to the chunker

MaxSections == 3
MaxTableRows == 3

\* A section as the section assembler builds it (lines 321-332): a heading
\* paragraph at the given position, then the body paragraphs.
OutlinedSection(outline, section_id, position) ==
    [header        |-> outline.header,
     type          |-> outline.type,
     content_parts |-> <<SamplePart(outline.header, outline.type, position)>>
                         \o [k \in 1..Len(outline.bodies) |->
                                SamplePart(outline.bodies[k], "content", position + k)],
     section_id    |-> section_id,
     total_tokens  |-> tiktoken_len(outline.header)
                         + SumTokens([k \in 1..Len(outline.bodies) |->
                                         SamplePart(outline.bodies[k], "content", 0)])]

RECURSIVE OutlinedSections(_, _, _)
OutlinedSections(outlines, section_id, position) ==
    IF outlines = <<>> THEN <<>>
    ELSE <<OutlinedSection(Head(outlines), section_id, position)>>
            \o OutlinedSections(Tail(outlines), section_id + 1,
                                position + 1 + Len(Head(outlines).bodies))

\* Sections of one to four paragraphs; "w2000" is a passage of 2000 words.
SectionOutlines ==
    {[header |-> <<"h">>, type |-> "heading", bodies |-> <<>>],
     [header |-> <<"a", " ", "b">>, type |-> "heading", bodies |-> <<<<"w2000">>, <<"w2000">>>>],
     [header |-> <<"h">>, type |-> "title", bodies |-> <<<<"w4000">>>>],
     [header |-> <<"g">>, type |-> "chapter", bodies |-> <<<<"w2000">>, <<"w1000">>, <<"w1000">>>>],
     [header |-> <<"C", "o", "r", "e">>, type |-> "heading", bodies |-> <<<<"x">>>>],
     [header |-> <<"g">>, type |-> "heading", bodies |-> <<<<"S", "p", "e", "e", "d">>>>]}

\* A table of one column as lines 358-386 build it from its rows.
TableOfRows(rows, table_id) ==
    [content   |-> Join(rows, LineBreak),
     headers   |-> <<rows[1]>>,
     table_id  |-> table_id,
     tokens    |-> tiktoken_len(Join(rows, LineBreak)),
     row_count |-> Len(rows)]

TableHeaderLines == {<<"h">>, <<"w3000">>}
TableDataLines == {<<"x">>, <<"w3000">>, <<"w6000">>}

SampleTables(table_id) ==
    {TableOfRows(<<hd>> \o rows, table_id) :
        hd \in TableHeaderLines, rows \in BoundedSeq(TableDataLines, MaxTableRows)}

\* Documents of sections only, of one table or the same rows twice, and of
\* one section with one table.
ChunkerDocuments ==
    {[sections |-> OutlinedSections(outlines, 0, 0), raw_tables |-> <<>>] :
        outlines \in BoundedSeq(SectionOutlines, MaxSections)}
    \cup {[sections |-> <<>>, raw_tables |-> <<t>>] : t \in SampleTables(0)}
    \cup {[sections |-> <<>>,
           raw_tables |-> <<t, [t EXCEPT !.table_id = 1]>>] : t \in SampleTables(0)}
    \cup {[sections |-> OutlinedSections(<<o>>, 0, 0), raw_tables |-> <<t>>] :
            o \in SectionOutlines, t \in SampleTables(0)}

InitChunk ==
    /\ input_doc \in ChunkerDocuments
    /\ cv_sections = <<>>
    /\ rest_sections = <<>>
    /\ core_chunk = <<>>
    /\ section_chunks = <<>>
    /\ table_chunks = <<>>
    /\ built_chunks = <<>>
    /\ unique_chunks = <<>>
    /\ pcC = "partition"
    /\ IdleAssemble
    /\ IdleMerge
    /\ IdleIndex
    /\ IdleClassify
    /\ IdleDelete
    /\ IdleMemory

NextChunk ==
    \/ PartitionSections
    \/ AggregateCoreValues
    \/ NoCoreValues
    \/ ChunkSmallSection
    \/ ChunkLargeSection
    \/ ChunkSmallTable
    \/ ChunkLargeTable
    \/ Deduplicate

SpecChunk == InitChunk /\ [][NextChunk]_vars

\* The steps build what the function computes as a whole.
StepsAgreeWithFunction ==
    pcC = "done" => unique_chunks = create_intelligent_chunks(input_doc)

----------------------------------------------------------------------------
(* Claims about the table splitter                                         *)

\* The table lines of a part: the lines of its content after the line of
\* the "=== TABLE (Part n) ===" banner.
PartTableLines(chunk) == Tail(SplitLines(chunk.content))

\* The parts' lines with the first line of each part removed, in part order.
RECURSIVE RejoinedDataLines(_)
RejoinedDataLines(parts) ==
    IF parts = <<>> THEN <<>>
    ELSE Tail(PartTableLines(Head(parts))) \o RejoinedDataLines(Tail(parts))

\* The tables handled so far that went to the splitter.
SplitTables ==
    {k \in 1..Len(table_chunks) : input_doc.raw_tables[k].tokens > TableTargetSize}

\* C11: for every table over the token budget, the parts emitted by the
\* splitter are numbered 1, 2, ... in order, and their lines without the
\* first (header) line of each part, concatenated in part order, are exactly
\* the lines of the table after its header line, each once and in order.
C11_TableSplitRoundTrip ==
    \A k \in SplitTables :
        /\ \A n \in 1..Len(table_chunks[k]) : table_chunks[k][n].metadata.part = n
        /\ RejoinedDataLines(table_chunks[k])
              = Tail(SplitLines(input_doc.raw_tables[k].content))

\* A table of three data lines has been split into at least two parts.
C11_Witness ==
    \E k \in SplitTables :
        /\ Len(table_chunks[k]) >= 2
        /\ Len(SplitLines(input_doc.raw_tables[k].content)) = 4
        /\ RejoinedDataLines(table_chunks[k])
              = Tail(SplitLines(input_doc.raw_tables[k].content))

\* C12: every part emitted by the splitter has the table's header line,
\* verbatim, as its first table line.
C12_EveryPartStartsWithHeader ==
    \A k \in SplitTables :
        \A n \in 1..Len(table_chunks[k]) :
            /\ PartTableLines(table_chunks[k][n]) # <<>>
            /\ Head(PartTableLines(table_chunks[k][n]))
                  = Head(SplitLines(input_doc.raw_tables[k].content))

\* A second part of a split table begins with the header line and goes on
\* with a data line.
C12_Witness ==
    \E k \in SplitTables :
        /\ Len(table_chunks[k]) >= 2
        /\ Len(PartTableLines(table_chunks[k][2])) >= 2
        /\ Head(PartTableLines(table_chunks[k][2]))
              = Head(SplitLines(input_doc.raw_tables[k].content))

----------------------------------------------------------------------------
(* Claims about the section chunker                                        *)

\* The header line of a section, "=== header ===" and the line break.
HeaderLine(section) ==
    <<"=", "=", "=", " ">> \o section.header \o <<" ", "=", "=", "=", "\n">>

IsPrefix(p, text) == Len(p) <= Len(text) /\ SubSeq(text, 1, Len(p)) = p

\* The sections handled so far that were over the target and were split.
SplitSections ==
    {k \in 1..Len(section_chunks) : rest_sections[k].total_tokens > SectionTargetSize}

\* C13: every chunk of the section chunker, the complete chunk of a small
\* section and each partial chunk of a split section alike, starts with the
\* header line of the section it comes from.
C13_ChunkStartsWithHeaderLine ==
    \A k \in 1..Len(section_chunks) :
        /\ section_chunks[k] # <<>>
        /\ \A n \in 1..Len(section_chunks[k]) :
              /\ IsPrefix(HeaderLine(rest_sections[k]), section_chunks[k][n].content)
              /\ section_chunks[k][n].metadata.section_header = rest_sections[k].header

\* A section has been split into partial chunks after a small section was
\* made one complete chunk, and the last partial chunk starts with the header
\* line.
C13_Witness ==
    \E k \in SplitSections, m \in 1..Len(section_chunks) :
        /\ m \notin SplitSections
        /\ Len(section_chunks[k]) >= 2
        /\ IsPrefix(HeaderLine(rest_sections[k]),
                    section_chunks[k][Len(section_chunks[k])].content)

\* C14: for every section over the target of 3500 tokens, whatever the sizes
\* of its parts, each chunk the section chunker emits has at most 3500
\* tokens.
C14_SplitChunksWithinTarget ==
    \A k \in SplitSections :
        \A n \in 1..Len(section_chunks[k]) :
            /\ section_chunks[k][n].tokens <= SectionTargetSize
            /\ tiktoken_len(section_chunks[k][n].content) <= SectionTargetSize

----------------------------------------------------------------------------
(* Claims about the chunk list of a document                               *)

\* The chunks of a list that carry the is_comprehensive flag.
ComprehensiveChunks(chunks) ==
    {n \in 1..Len(chunks) :
        /\ "is_comprehensive" \in DOMAIN chunks[n].metadata
        /\ chunks[n].metadata.is_comprehensive}

\* The sections of the document that are core values sections.
ConceptSections ==
    {k \in 1..Len(input_doc.sections) : is_core_values(input_doc.sections[k])}

\* The chunk came out of the section chunker for the k-th section.
ChunkedNormally(chunk, k) ==
    /\ "section_id" \in DOMAIN chunk.metadata
    /\ chunk.metadata.section_id = input_doc.sections[k].section_id

\* C15: the chunk list of a document holds exactly one chunk flagged
\* is_comprehensive when the document has a core values section, and none
\* when it has not; and no core values section has a chunk of the section
\* chunker.
C15_OneComprehensiveChunk ==
    pcC = "done" =>
        /\ Cardinality(ComprehensiveChunks(unique_chunks))
              = (IF ConceptSections = {} THEN 0 ELSE 1)
        /\ \A k \in ConceptSections :
              \A n \in 1..Len(unique_chunks) : ~ChunkedNormally(unique_chunks[n], k)
        /\ \A k \in ConceptSections :
              \A n \in 1..Len(built_chunks) : ~ChunkedNormally(built_chunks[n], k)

\* A document of two core values sections and another section has been
\* chunked: one comprehensive chunk and the chunk of the other section.
C15_Witness ==
    /\ pcC = "done"
    /\ Cardinality(ConceptSections) = 2
    /\ Len(input_doc.sections) = 3
    /\ Cardinality(ComprehensiveChunks(unique_chunks)) = 1
    /\ \E k \in 1..3 : \E n \in 1..Len(unique_chunks) : ChunkedNormally(unique_chunks[n], k)

\* The positions of a chunk list whose content occurs at no earlier position.
FirstOccurrences(chunks) ==
    {n \in 1..Len(chunks) : \A m \in 1..(n - 1) : chunks[m].content # chunks[n].content}

\* The p-th smallest member of a set of positions.
NthOf(positions, p) ==
    CHOOSE n \in positions : Cardinality({m \in positions : m <= n}) = p

\* C16: the deduplicated list is the list of the first occurrences of each
\* distinct content, in their original order, and holds no two chunks of the
\* same content.
C16_DedupeKeepsFirstOccurrences ==
    pcC = "done" =>
        /\ Len(unique_chunks) = Cardinality(FirstOccurrences(built_chunks))
        /\ \A p \in 1..Len(unique_chunks) :
              unique_chunks[p] = built_chunks[NthOf(FirstOccurrences(built_chunks), p)]
        /\ \A p, q \in 1..Len(unique_chunks) :
              p # q => unique_chunks[p].content # unique_chunks[q].content

\* Chunks of equal content and different metadata were in the list, and a
\* chunk of another content: the first of the equal ones was kept.
C16_Witness ==
    /\ pcC = "done"
    /\ Len(unique_chunks) >= 2
    /\ \E m, n \in 1..Len(built_chunks) :
          /\ m < n
          /\ built_chunks[m].content = built_chunks[n].content
          /\ built_chunks[m] # built_chunks[n]
          /\ m \in FirstOccurrences(built_chunks)
          /\ \E p \in 1..Len(unique_chunks) : unique_chunks[p] = built_chunks[m]

----------------------------------------------------------------------------
(* Claims about failures during indexing                                   *)

\* The session s is in the loop over the chunks of a document with the chunk
\* of ordinal ci still to be written.
AtChunk(s) == ses[s].pc = "write" /\ ses[s].ci < Len(ses[s].chunks)

\* The entry the write of the chunk at hand makes.
PointAtHand(s) == Point(CurrentName(ses[s]), ses[s].ci, ses[s].chunks)

\* C17: a step of the loop over the chunks of a document, whether the write
\* succeeds or fails, goes on to the next chunk of the same document, and
\* leaves every entry of the index other than that of the chunk at hand as
\* it was; when the write fails the index is left as it was.  The loop is
\* left only after the last chunk.
C17_FailedWriteSkipsOneChunk ==
    [][\A s \in DOMAIN ses :
          /\ (AtChunk(s) /\ ses'[s] # ses[s]) =>
                /\ ses'[s].pc = "write"
                /\ ses'[s].ci = ses[s].ci + 1
                /\ ses'[s].chunks = ses[s].chunks
                /\ ses'[s].work = ses[s].work /\ ses'[s].k = ses[s].k
                /\ ses'[s].errors = ses[s].errors
                /\ {p \in points : p.id # PointAtHand(s).id}
                      = {p \in points' : p.id # PointAtHand(s).id}
                /\ (ses'[s].writes = ses[s].writes) => points' = points
                /\ (ses'[s].writes # ses[s].writes) => PointAtHand(s) \in points'
          /\ (ses[s].pc = "write" /\ ses'[s].pc # "write") =>
                ses[s].ci = Len(ses[s].chunks)]_vars

\* Of the three chunks of a document the second write failed: the first and
\* the third chunk are in the index and the second is not.
C17_Witness ==
    \E s \in DOMAIN ses :
        /\ ses[s].pc = "write"
        /\ ses[s].write_failed
        /\ Len(ses[s].chunks) = 3
        /\ ses[s].ci = 3
        /\ Point(CurrentName(ses[s]), 0, ses[s].chunks) \in points
        /\ Point(CurrentName(ses[s]), 1, ses[s].chunks).id \notin {p.id : p \in points}
        /\ Point(CurrentName(ses[s]), 2, ses[s].chunks) \in points

\* The documents a run has counted.
Counted(r) == r.indexed + r.skipped + Len(r.errors)

\* The session is in, or has ended, the loop over the documents of a run.
InDocumentLoop(r) == r.pc \in {"fetch", "write"}
EndedDocumentLoop(r) == r.pc = "done" /\ r.result = "success" /\ r.work # <<>>

----------------------------------------------------------------------------
(* Claims about the incremental run                                        *)

\* The session has just computed the work set of an incremental run whose
\* scan and listing succeeded: nothing has changed the store or the index
\* since.
WorkSetJustComputed(r) ==
    /\ r.call = "reconcile"
    /\ r.scanned /\ ~r.scan_failed
    /\ r.listed
    /\ \/ r.pc = "fetch" /\ r.k = 0
       \/ r.pc = "done" /\ r.work = <<>>

\* The documents of the store under the prefix of the run that have no entry
\* in the index.
UnindexedUnderPrefix(r) ==
    {name \in DOMAIN blobs : StartsWith(name, r.prefix) /\ name \notin AllSources}

\* C19: every document that is in the object store under the prefix and has
\* no entry in the index is in the work set of an incremental run whose index
\* scan and store listing succeed, whatever the runs before it did.
C19_UnindexedDocumentInNextWorkSet ==
    \A s \in DOMAIN ses :
        WorkSetJustComputed(ses[s]) =>
            \A name \in UnindexedUnderPrefix(ses[s]) : name \in Range(ses[s].work)

\* A second run: an earlier call indexed one document under the prefix and
\* left another without an entry, and the work set of this run is the other
\* one alone.
C19_Witness ==
    \E s \in DOMAIN ses :
        /\ WorkSetJustComputed(ses[s])
        /\ calls = 2
        /\ \E name \in DOMAIN blobs :
              /\ StartsWith(name, ses[s].prefix)
              /\ name \in {p.metadata.source : p \in points}
        /\ UnindexedUnderPrefix(ses[s]) # {}
        /\ Range(ses[s].work) = UnindexedUnderPrefix(ses[s])
        /\ Len(ses[s].work) < Len(ses[s].blob_names)

----------------------------------------------------------------------------
(* Claims about the heading types of the section assembler                 *)

\* The heading-like content types of the specification.
HeadingLikeTypes == {"title", "heading", "section_header", "chapter", "subsection_header"}

\* A step that consumes a paragraph of non-empty cleaned text treats the
\* types of the given set as headings: such a paragraph closes the open
\* section, if any, and opens a section headed by it; a paragraph of another
\* type met with a section open is appended to that section.
ConsumesWithHeadings(types) ==
    (pcA = "loop" /\ idx < Len(paragraphs) /\ idx' = idx + 1
        /\ SectionData(idx).content # <<>>) =>
        LET data == SectionData(idx) IN
        IF data.type \in types
        THEN /\ sections' = sections \o current_section
             /\ Len(current_section') = 1
             /\ current_section'[1].header = data.content
             /\ current_section'[1].content_parts = <<data>>
        ELSE current_section # <<>> =>
                /\ sections' = sections
                /\ Len(current_section') = 1
                /\ current_section'[1].header = current_section[1].header
                /\ current_section'[1].content_parts
                      = Append(current_section[1].content_parts, data)

AssemblesByListedTypes == [][ConsumesWithHeadings(HeadingTypes)]_vars

----------------------------------------------------------------------------
(* Further claims about the section assembler                              *)

\* The token counts of the texts of some parts, added up.
RECURSIVE TokensOfParts(_)
TokensOfParts(parts) ==
    IF parts = <<>> THEN 0
    ELSE tiktoken_len(Head(parts).content) + TokensOfParts(Tail(parts))

\* C21: in every state of the assembly, every emitted section and the open
\* section, the synthetic "Document Content" section included, has
\* total_tokens equal to the sum of the token counts of its parts.
C21_TotalTokensIsSumOfParts ==
    \A n \in 1..Len(sections \o current_section) :
        LET sec == (sections \o current_section)[n] IN
        /\ sec.total_tokens = TokensOfParts(sec.content_parts)
        /\ \A p \in 1..Len(sec.content_parts) :
              sec.content_parts[p].tokens = tiktoken_len(sec.content_parts[p].content)

\* A heading section of two paragraphs has been emitted after a synthetic
\* section, and its total is more than the tokens of its heading.
C21_Witness ==
    /\ pcA = "done"
    /\ Len(sections) = 2
    /\ sections[1].header = DocumentContentHeader
    /\ Len(sections[2].content_parts) = 2
    /\ sections[2].total_tokens > tiktoken_len(sections[2].header)

----------------------------------------------------------------------------
(* The paragraph classifier, _classify_content_type                        *)

\* The upper-case letter of each lower-case letter.
UpperOf ==
    [c \in {LowerLetters[k] : k \in 1..26} |->
        UpperLetters[CHOOSE n \in 1..26 : LowerLetters[n] = c]]

\* str.upper()
Upper(s) == [k \in 1..Len(s) |-> IF s[k] \in DOMAIN UpperOf THEN UpperOf[s[k]] ELSE s[k]]

\* any(keyword in text for keyword in keywords)
ContainsAny(text, keywords) == \E k \in 1..Len(keywords) : Contains(text, keywords[k])

\* The length of the run of digits a text begins with.
RECURSIVE LeadingDigits(_)
LeadingDigits(s) ==
    IF s # <<>> /\ IsDigit(Head(s)) THEN 1 + LeadingDigits(Tail(s)) ELSE 0

\* re.match(r'^(BAB|CHAPTER|SECTION|BAGIAN)\s*\d+', text_upper)
MatchesChapter(text_upper) ==
    \E word \in {<<"B", "A", "B">>, <<"C", "H", "A", "P", "T", "E", "R">>, <<"S", "E", "C", "T", "I", "O", "N">>, <<"B", "A", "G", "I", "A", "N">>} :
        /\ StartsWith(text_upper, word)
        /\ LeadingDigits(DropWhileWhitespace(
              SubSeq(text_upper, Len(word) + 1, Len(text_upper)))) >= 1

\* re.match(r'^\d+\.', s)
MatchesNumbered(s) ==
    /\ LeadingDigits(s) >= 1
    /\ Len(s) > LeadingDigits(s)
    /\ s[LeadingDigits(s) + 1] = "."

\* re.match(r'^\d+\.\d+', s)
MatchesSubNumbered(s) ==
    /\ MatchesNumbered(s)
    /\ Len(s) > LeadingDigits(s) + 1
    /\ IsDigit(s[LeadingDigits(s) + 2])

\* text.count(piece)
CountOf(text, piece) ==
    Cardinality({k \in 0..(Len(text) - Len(piece)) :
                    SubSeq(text, k + 1, k + Len(piece)) = piece})

\* Lines 391-470.  The role is <<>> (None) or <<role>>.  Of the characters
\* of line 462 the texts of the model have "|" and ":".
classify_content_type(text, role) ==
    LET text_upper == Upper(text)
        RoleHas(word) == role # <<>> /\ Contains(Lower(role[1]), word)
    IN
    IF RoleHas(<<"t", "i", "t", "l", "e">>) THEN "title"
    ELSE IF RoleHas(<<"h", "e", "a", "d", "i", "n", "g">>) THEN "heading"
    ELSE IF ContainsAny(text_upper, <<<<"C", "O", "R", "E", " ", "V", "A", "L", "U", "E", "S">>, <<"N", "I", "L", "A", "I", " ", "I", "N", "T", "I">>>>)
         THEN "core_values_header"
    ELSE IF ContainsAny(text_upper,
               <<<<"H", "U", "M", "B", "L", "E">>, <<"C", "U", "S", "T", "O", "M", "E", "R", " ", "F", "O", "C", "U", "S", "E", "D">>, <<"E", "M", "P", "L", "O", "Y", "E", "E", " ", "S", "A", "T", "I", "S", "F", "A", "C", "T", "I", "O", "N">>,
                 <<"S", "P", "E", "E", "D">>, <<"P", "A", "S", "S", "I", "O", "N">>, <<"I", "N", "T", "E", "G", "R", "I", "T", "Y">>, <<"D", "I", "S", "C", "I", "P", "L", "I", "N", "E">>>>)
         THEN IF CountWords(text, FALSE) < 10 THEN "core_value_item"
              ELSE "core_value_content"
    ELSE IF ContainsAny(text_upper,
               <<<<"D", "A", "F", "T", "A", "R", " ", "I", "S", "I">>, <<"T", "A", "B", "L", "E", " ", "O", "F", " ", "C", "O", "N", "T", "E", "N", "T", "S">>, <<"C", "O", "N", "T", "E", "N", "T", "S">>,
                 <<"I", "N", "D", "E", "X">>, <<"I", "N", "D", "E", "K", "S">>>>)
         THEN "table_of_contents"
    ELSE IF MatchesChapter(text_upper) THEN "chapter"
    ELSE IF MatchesNumbered(Strip(text)) THEN "section_header"
    ELSE IF MatchesSubNumbered(Strip(text)) THEN "subsection_header"
    ELSE IF ContainsAny(text_upper,
               <<<<"A", "P", "P", "E", "N", "D", "I", "X">>, <<"L", "A", "M", "P", "I", "R", "A", "N">>, <<"A", "N", "N", "E", "X">>, <<"A", "T", "T", "A", "C", "H", "M", "E", "N", "T">>>>)
         THEN "appendix"
    ELSE IF ContainsAny(text_upper,
               <<<<"P", "U", "R", "P", "O", "S", "E">>, <<"T", "U", "J", "U", "A", "N">>, <<"V", "I", "S", "I", "O", "N">>, <<"V", "I", "S", "I">>,
                 <<"M", "I", "S", "S", "I", "O", "N">>, <<"M", "I", "S", "I">>, <<"O", "B", "J", "E", "C", "T", "I", "V", "E">>, <<"S", "A", "S", "A", "R", "A", "N">>,
                 <<"G", "O", "A", "L">>, <<"T", "A", "R", "G", "E", "T">>, <<"I", "N", "T", "R", "O", "D", "U", "C", "T", "I", "O", "N">>, <<"P", "E", "N", "D", "A", "H", "U", "L", "U", "A", "N">>,
                 <<"O", "V", "E", "R", "V", "I", "E", "W">>, <<"R", "I", "N", "G", "K", "A", "S", "A", "N">>, <<"S", "U", "M", "M", "A", "R", "Y">>, <<"C", "O", "N", "C", "L", "U", "S", "I", "O", "N">>,
                 <<"K", "E", "S", "I", "M", "P", "U", "L", "A", "N">>, <<"R", "E", "C", "O", "M", "M", "E", "N", "D", "A", "T", "I", "O", "N">>, <<"R", "E", "K", "O", "M", "E", "N", "D", "A", "S", "I">>>>)
         THEN "purpose_statement"
    ELSE IF ContainsAny(text_upper,
               <<<<"P", "R", "O", "C", "E", "D", "U", "R", "E">>, <<"P", "R", "O", "S", "E", "D", "U", "R">>, <<"P", "R", "O", "C", "E", "S", "S">>, <<"P", "R", "O", "S", "E", "S">>,
                 <<"W", "O", "R", "K", "F", "L", "O", "W">>, <<"L", "A", "N", "G", "K", "A", "H">>, <<"T", "A", "H", "A", "P">>, <<"S", "T", "E", "P", "S">>, <<"C", "A", "R", "A">>>>)
         THEN "detailed_content"
    ELSE IF ContainsAny(text_upper,
               <<<<"P", "O", "L", "I", "C", "Y">>, <<"K", "E", "B", "I", "J", "A", "K", "A", "N">>, <<"R", "U", "L", "E">>, <<"A", "T", "U", "R", "A", "N">>,
                 <<"R", "E", "G", "U", "L", "A", "T", "I", "O", "N">>, <<"R", "E", "G", "U", "L", "A", "S", "I">>, <<"G", "U", "I", "D", "E", "L", "I", "N", "E">>, <<"P", "A", "N", "D", "U", "A", "N">>>>)
         THEN "detailed_content"
    ELSE IF CountWords(text, FALSE) > 100 THEN "detailed_content"
    ELSE IF \/ \E k \in 1..Len(text) : text[k] \in {"|", ":"}
            \/ CountOf(text, <<"|">>) > 2 /\ \E k \in 1..Len(text) : text[k] = "\n"
         THEN "table_content"
    ELSE "content"

\* Line 306: the paragraph is classified.
ClassifyParagraph ==
    /\ Len(classification.content_type) = 0
    /\ classification' =
          [classification EXCEPT
              !.content_type = <<classify_content_type(classification.text,
                                                       classification.role)>>]
    /\ UNCHANGED notK

\* Texts as the analyzer gives them and as _clean_text leaves them.
ClassifierTexts ==
    {<<"1", ".", "1", " ", "S", "c", "o", "p", "e">>, <<"1", ".", " ", "1", " ", "S", "c", "o", "p", "e">>, <<"1", ".", " ", "S", "c", "o", "p", "e">>, <<"2", ".", "3">>, <<"1", "2", ".">>,
     <<"1", "0", ".", "2", ".", "1", " ", "T", "e", "r", "m", "s">>, <<"3", " ", "i", "t", "e", "m", "s">>, <<"C", "H", "A", "P", "T", "E", "R", " ", "1">>, <<"B", "a", "b", " ", "2">>, <<"S", "e", "c", "t", "i", "o", "n", "1", "2">>,
     <<"C", "o", "r", "e", " ", "V", "a", "l", "u", "e", "s">>, <<"1", ".", "1", " ", "N", "i", "l", "a", "i", " ", "I", "n", "t", "i">>, <<"O", "u", "r", " ", "s", "p", "e", "e", "d">>, <<"1", ".", "2", " ", "C", "o", "n", "t", "e", "n", "t", "s">>,
     <<"A", "p", "p", "e", "n", "d", "i", "x", " ", "A">>, <<"P", "u", "r", "p", "o", "s", "e">>, <<"S", "t", "e", "p", "s">>, <<"P", "o", "l", "i", "c", "y">>, <<"a", " ", "|", " ", "b">>,
     <<"x">>, <<"w1000">>}

\* The role hints: None and roles of the analyzer.
ClassifierRoles ==
    {<<>>, <<<<"t", "i", "t", "l", "e">>>>, <<<<"s", "e", "c", "t", "i", "o", "n", "H", "e", "a", "d", "i", "n", "g">>>>, <<<<"p", "a", "g", "e", "H", "e", "a", "d", "e", "r">>>>}

InitClassify ==
    /\ classification \in [text : ClassifierTexts, role : ClassifierRoles,
                           content_type : {<<>>}]
    /\ IdleAssemble
    /\ IdleMerge
    /\ IdleIndex
    /\ IdleChunk
    /\ IdleDelete
    /\ IdleMemory

NextClassify == ClassifyParagraph

SpecClassify == InitClassify /\ [][NextClassify]_vars

\* ---- claims about the classifier

\* The text is caught by one of the rules before the numbering rules: the
\* core values rules, the table of contents rule or the chapter rule.
CaughtByEarlierRule(text) ==
    \/ ContainsAny(Upper(text), <<<<"C", "O", "R", "E", " ", "V", "A", "L", "U", "E", "S">>, <<"N", "I", "L", "A", "I", " ", "I", "N", "T", "I">>, <<"H", "U", "M", "B", "L", "E">>,
                                  <<"C", "U", "S", "T", "O", "M", "E", "R", " ", "F", "O", "C", "U", "S", "E", "D">>, <<"E", "M", "P", "L", "O", "Y", "E", "E", " ", "S", "A", "T", "I", "S", "F", "A", "C", "T", "I", "O", "N">>,
                                  <<"S", "P", "E", "E", "D">>, <<"P", "A", "S", "S", "I", "O", "N">>, <<"I", "N", "T", "E", "G", "R", "I", "T", "Y">>,
                                  <<"D", "I", "S", "C", "I", "P", "L", "I", "N", "E">>, <<"D", "A", "F", "T", "A", "R", " ", "I", "S", "I">>,
                                  <<"T", "A", "B", "L", "E", " ", "O", "F", " ", "C", "O", "N", "T", "E", "N", "T", "S">>, <<"C", "O", "N", "T", "E", "N", "T", "S">>, <<"I", "N", "D", "E", "X">>,
                                  <<"I", "N", "D", "E", "K", "S">>>>)
    \/ MatchesChapter(Upper(text))

\* The text begins with digits and a dot, and goes on with a digit or not.
BeginsWithNumber(text) ==
    \E n \in 1..(Len(text) - 1) :
        /\ \A k \in 1..n : IsDigit(text[k])
        /\ text[n + 1] = "."

BeginsWithSubNumber(text) ==
    \E n \in 1..(Len(text) - 2) :
        /\ \A k \in 1..n : IsDigit(text[k])
        /\ text[n + 1] = "."
        /\ IsDigit(text[n + 2])

\* C22: a classified paragraph with no role hint that none of the core
\* values, table of contents or chapter rules catches is a subsection_header
\* when its text begins with digits, a dot and digits, and a section_header
\* when it begins with digits and a dot only.
C22_NumberedHeadingsByDepth ==
    (classification.content_type # <<>> /\ classification.role = <<>>
        /\ ~CaughtByEarlierRule(classification.text)) =>
        /\ BeginsWithSubNumber(classification.text) =>
              classification.content_type = <<"subsection_header">>
        /\ (BeginsWithNumber(classification.text)
                /\ ~BeginsWithSubNumber(classification.text)) =>
              classification.content_type = <<"section_header">>

\* The half of it that is about digits and a dot only.
NumberedOnlyIsSectionHeader ==
    (classification.content_type # <<>> /\ classification.role = <<>>
        /\ ~CaughtByEarlierRule(classification.text)
        /\ BeginsWithNumber(classification.text)
        /\ ~BeginsWithSubNumber(classification.text)) =>
        classification.content_type = <<"section_header">>

\* No paragraph is classified subsection_header.
NeverSubsectionHeader == classification.content_type # <<"subsection_header">>


\* ---- claims about the groups of the merger

\* C23: the continuation test is given the distance from the table that
\* opened the group, and a table more than 2 positions after the opener is
\* never added: the group at hand and every closed group hold at most 3
\* tables.
C23_GroupOfAtMostThreeTables ==
    /\ pcM = "inner" =>
          /\ tj - ti = Len(continuation_tables)
          /\ tj - ti <= 3
          /\ \A k \in 1..Len(continuation_tables) :
                continuation_tables[k] = tables[ti + k]
    /\ \A g \in 1..Len(groups) : Len(groups[g]) <= 3

\* Four tables with the same header: the first three were pooled and the
\* fourth, a continuation of the third at distance 3, was left out.
C23_Witness ==
    /\ pcM = "done"
    /\ Len(tables) = 4
    /\ IsSameHeaderRun(tables)
    /\ Len(groups) = 2
    /\ Len(groups[1]) = 3
    /\ is_table_continuation(tables[3], tables[4], 1)

\* The tables of the groups, one group after the other.
RECURSIVE ConcatGroups(_)
ConcatGroups(gs) ==
    IF gs = <<>> THEN <<>> ELSE Head(gs) \o ConcatGroups(Tail(gs))

\* C24: the output of the merger is an order-preserving partition of the
\* input into contiguous groups: the groups, one after the other, are the
\* input list, so every input table is in exactly one of them; every output
\* element is made of one group, a group of one table being passed on as
\* that table; and the output has no more elements than the input.
C24_OutputPartitionsInput ==
    pcM = "done" =>
        /\ ConcatGroups(groups) = tables
        /\ Len(merged) = Len(groups)
        /\ Len(merged) <= Len(tables)
        /\ \A g \in 1..Len(groups) :
              /\ Len(groups[g]) >= 1
              /\ Len(groups[g]) = 1 => merged[g] = groups[g][1]
              /\ Len(groups[g]) > 1 => merged[g] = merge_table_list(groups[g])

\* Three tables came out as a merged table of two and the third as it was.
C24_Witness ==
    /\ pcM = "done"
    /\ Len(tables) = 3
    /\ Len(merged) = 2
    /\ Len(groups[1]) = 2
    /\ merged[1].is_merged
    /\ merged[2] = tables[3]

----------------------------------------------------------------------------
(* Claims about the placement of the parts                                 *)

\* text.split("\n\n")
RECURSIVE SplitParagraphs(_)
SplitParagraphs(text) ==
    IF \A k \in 1..(Len(text) - 1) : SubSeq(text, k, k + 1) # ParagraphBreak THEN <<text>>
    ELSE LET n == CHOOSE k \in 1..(Len(text) - 1) :
                    /\ SubSeq(text, k, k + 1) = ParagraphBreak
                    /\ \A m \in 1..(k - 1) : SubSeq(text, m, m + 1) # ParagraphBreak
         IN <<SubSeq(text, 1, n - 1)>> \o SplitParagraphs(SubSeq(text, n + 2, Len(text)))

\* The body parts of a chunk of the section chunker: the paragraphs after
\* the header line.
SectionChunkBody(section, chunk) ==
    SplitParagraphs(SubSeq(chunk.content, Len(HeaderLine(section)) + 1, Len(chunk.content)))

RECURSIVE SectionChunkBodies(_, _)
SectionChunkBodies(section, chunks) ==
    IF chunks = <<>> THEN <<>>
    ELSE SectionChunkBody(section, Head(chunks)) \o SectionChunkBodies(section, Tail(chunks))

\* The "=== header ===" lines the comprehensive chunk puts before the parts
\* of a section with "core" in its header.
IsCoreBanner(paragraph) ==
    \E k \in 1..Len(cv_sections) :
        /\ Contains(Lower(cv_sections[k].header), CoreWord)
        /\ paragraph = <<"=", "=", "=", " ">> \o cv_sections[k].header \o <<" ", "=", "=", "=">>

\* The body parts of the comprehensive chunk.
ComprehensiveBody(chunk) ==
    SelectSeq(SplitParagraphs(chunk.content), LAMBDA paragraph : ~IsCoreBanner(paragraph))

RECURSIVE AllPartContents(_)
AllPartContents(secs) ==
    IF secs = <<>> THEN <<>>
    ELSE PartContents(Head(secs).content_parts) \o AllPartContents(Tail(secs))

\* The positions of the parts of a list of sections.
PositionsOf(secs) ==
    UNION {{secs[k].content_parts[n].position : n \in 1..Len(secs[k].content_parts)} :
              k \in 1..Len(secs)}

\* C25: before deduplication every part of every section is a body part of
\* exactly one chunk.  The sections are divided into concept sections and
\* the others, no part on both sides and none on neither; the comprehensive
\* chunk holds the parts of the concept sections, each once; the chunks of
\* every other section hold the parts of that section, each once and in
\* order; and the chunk list holds these chunks, each once.
C25_EveryPartInExactlyOneChunk ==
    /\ pcC # "partition" =>
          /\ PositionsOf(cv_sections) \cup PositionsOf(rest_sections)
                = PositionsOf(input_doc.sections)
          /\ PositionsOf(cv_sections) \cap PositionsOf(rest_sections) = {}
          /\ Len(cv_sections) + Len(rest_sections) = Len(input_doc.sections)
    /\ pcC \in {"build", "done"} =>
          /\ cv_sections # <<>> => Len(core_chunk) = 1
          /\ core_chunk # <<>> =>
                ComprehensiveBody(core_chunk[1]) = AllPartContents(cv_sections)
          /\ built_chunks = core_chunk \o ConcatGroups(section_chunks)
                               \o ConcatGroups(table_chunks)
    /\ \A k \in 1..Len(section_chunks) :
          SectionChunkBodies(rest_sections[k], section_chunks[k])
              = PartContents(rest_sections[k].content_parts)

\* A document with a concept section and a section that was split: the
\* parts of the first are in the comprehensive chunk, those of the second
\* in the two chunks of their section.
C25_Witness ==
    /\ pcC = "done"
    /\ Len(cv_sections) >= 1
    /\ Len(core_chunk) = 1
    /\ \E k \in 1..Len(section_chunks) :
          /\ Len(section_chunks[k]) >= 2
          /\ Len(rest_sections[k].content_parts) >= 3
    /\ Len(built_chunks) >= 3

\* C26: every part emitted by the table splitter has, after the header
\* line, at least one data line, and a table handed to the splitter yields
\* at least one part.
C26_EveryPartHasDataRow ==
    \A k \in SplitTables :
        /\ Len(table_chunks[k]) >= 1
        /\ \A n \in 1..Len(table_chunks[k]) :
              Len(PartTableLines(table_chunks[k][n])) >= 2

\* Only the first part of a split table can be without data lines.
LaterPartsHaveDataRows ==
    \A k \in SplitTables :
        \A n \in 2..Len(table_chunks[k]) :
            Len(PartTableLines(table_chunks[k][n])) >= 2

----------------------------------------------------------------------------
(* Claims about what an incremental run selects                            *)

\* C27: an incremental run never selects a source that has an entry in the
\* index: no name of the work set computed from the scan and the listing is
\* the source of an entry the index held at the scan, so a document with
\* some of its chunks written is skipped by every later incremental run.
C27_IndexedSourceNeverSelected ==
    \A s \in DOMAIN ses :
        (ses[s].call = "reconcile" /\ ses[s].scanned /\ ses[s].listed) =>
            \A n \in 1..Len(ses[s].work) : ses[s].work[n] \notin ses[s].sources_at_scan

\* The same for the runs whose scan answered with every source of the index.
CompleteScanNeverSelectsIndexed ==
    \A s \in DOMAIN ses :
        (ses[s].call = "reconcile" /\ ses[s].scanned /\ ses[s].listed
            /\ ~ses[s].scan_failed
            /\ ses[s].indexed_documents = ses[s].sources_at_scan) =>
            \A n \in 1..Len(ses[s].work) : ses[s].work[n] \notin ses[s].sources_at_scan

----------------------------------------------------------------------------
(* Document deletion: delete_document_complete and its helpers             *)

\* Lines 481-494 with one filter: the ids on the one page of at most
\* ScrollLimit entries the scroll request returns for the filter.
FilteredPages(matching) ==
    IF Cardinality(matching) <= ScrollLimit THEN {{p.id : p \in matching}}
    ELSE {{p.id : p \in page} :
             page \in {S \in SUBSET matching : Cardinality(S) = ScrollLimit}}

\* The entries with the key "source" at the top of the payload: add_texts
\* puts the metadata, and the source with it, under "metadata".
DirectSourcePoints(blob_name) ==
    {p \in points : "source" \in DOMAIN p /\ p["source"] = blob_name}

\* Lines 472-510: what search_documents_in_qdrant can return.  The first
\* strategy that finds ids gives the result; a strategy that raises is
\* passed over, and the result is empty when none finds an id.
SearchResults(blob_name) ==
    LET direct == FilteredPages(DirectSourcePoints(blob_name))
        by_metadata == FilteredPages(PointsOfSource(blob_name))
    IN direct \cup {ids \in by_metadata : {} \in direct} \cup {{}}

\* delete_document_complete(blob_name, ...), lines 548-561
StartDelete(blob_name) ==
    /\ deletion.pc = "idle"
    /\ deletion' = [IdleDeletion EXCEPT !.blob_name = <<blob_name>>, !.pc = "search"]
    /\ UNCHANGED varsI
    /\ UNCHANGED notD

\* Lines 563-564: step 1, the search answers, or fails and returns [].
SearchPoints ==
    /\ deletion.pc = "search"
    /\ \E ids \in SearchResults(deletion.blob_name[1]) :
          deletion' = [deletion EXCEPT !.point_ids = ids, !.pc = "points"]
    /\ UNCHANGED varsI
    /\ UNCHANGED notD

\* Lines 567-569 with 517-527: step 2, the ids found are deleted.
DeletePoints ==
    /\ deletion.pc = "points"
    /\ deletion.point_ids # {}
    /\ points' = {p \in points : p.id \notin deletion.point_ids}
    /\ deletion' = [deletion EXCEPT
                       !.search_documents_deleted = Cardinality(deletion.point_ids),
                       !.pc = "blob"]
    /\ UNCHANGED <<blobs, other_points, ses, index_log, calls>>
    /\ UNCHANGED notD

\* Lines 570-571 with 529-531: the deletion of the ids raises.
DeletePointsFails ==
    /\ deletion.pc = "points"
    /\ deletion.point_ids # {}
    /\ deletion' = [deletion EXCEPT !.search_deletion_errors = TRUE, !.pc = "blob"]
    /\ UNCHANGED varsI
    /\ UNCHANGED notD

\* Line 567: no id was found.
NoPointsFound ==
    /\ deletion.pc = "points"
    /\ deletion.point_ids = {}
    /\ deletion' = [deletion EXCEPT !.pc = "blob"]
    /\ UNCHANGED varsI
    /\ UNCHANGED notD

\* Step 4, lines 578-583.
Concluded(r, blob_deleted) ==
    [r EXCEPT !.blob_deleted = blob_deleted,
              !.success = blob_deleted /\ ~r.search_deletion_errors,
              !.pc = "done"]

\* del blobs[blob_name]
Removed(container, blob_name) ==
    [n \in DOMAIN container \ {blob_name} |-> container[n]]

\* Lines 574-575 with 424-432: step 3, the blob exists and is deleted.
DeleteBlob ==
    /\ deletion.pc = "blob"
    /\ deletion.blob_name[1] \in DOMAIN blobs
    /\ blobs' = Removed(blobs, deletion.blob_name[1])
    /\ deletion' = Concluded(deletion, TRUE)
    /\ UNCHANGED <<points, other_points, ses, index_log, calls>>
    /\ UNCHANGED notD

\* Lines 426-428: the blob does not exist.
BlobMissing ==
    /\ deletion.pc = "blob"
    /\ deletion.blob_name[1] \notin DOMAIN blobs
    /\ deletion' = Concluded(deletion, FALSE)
    /\ UNCHANGED varsI
    /\ UNCHANGED notD

\* Lines 434-436: the store raises.
DeleteBlobFails ==
    /\ deletion.pc = "blob"
    /\ deletion' = Concluded(deletion, FALSE)
    /\ UNCHANGED varsI
    /\ UNCHANGED notD

\* Line 591: the result is returned.
ReturnDeletion ==
    /\ deletion.pc = "done"
    /\ deletion' = IdleDeletion
    /\ UNCHANGED varsI
    /\ UNCHANGED notD

\* The entries a complete indexing of the content leaves for the name.
EntriesOf(blob_name, content_bytes) ==
    LET chunks == create_intelligent_chunks(extract_text_with_docint(content_bytes))
    IN {Point(blob_name, n - 1, chunks) : n \in 1..Len(chunks)}

\* The index when the deletions begin: each of the two sample names under
\* the prefix has no entry or the entries of one of the sample contents.
InitialIndexes ==
    {a \cup b : a \in {{}} \cup {EntriesOf(NamesInOrder[2], c) : c \in DocumentBytes},
                b \in {{}} \cup {EntriesOf(NamesInOrder[3], c) : c \in DocumentBytes}}

InitDelete ==
    /\ blobs \in InitialContainers
    /\ points \in InitialIndexes
    /\ other_points = 0
    /\ ses = <<>>
    /\ index_log = <<>>
    /\ calls = 0
    /\ deletion = IdleDeletion
    /\ IdleAssemble
    /\ IdleMerge
    /\ IdleChunk
    /\ IdleClassify
    /\ IdleMemory

NextDelete ==
    \/ \E blob_name \in {NamesInOrder[2], NamesInOrder[3]} : StartDelete(blob_name)
    \/ SearchPoints
    \/ DeletePoints
    \/ DeletePointsFails
    \/ NoPointsFound
    \/ DeleteBlob
    \/ BlobMissing
    \/ DeleteBlobFails
    \/ ReturnDeletion

SpecDelete == InitDelete /\ [][NextDelete]_vars

\* ---- claims about deletion

\* C28: delete_document_complete returns success = true only if, when it
\* returns, the blob is absent from the store and no entry of the index
\* carries the blob name as its source.
C28_SuccessMeansNothingLeft ==
    (deletion.pc = "done" /\ deletion.success) =>
        /\ deletion.blob_name[1] \notin DOMAIN blobs
        /\ PointsOfSource(deletion.blob_name[1]) = {}

\* The half of it that is about the store.
SuccessMeansBlobGone ==
    (deletion.pc = "done" /\ deletion.success) =>
        deletion.blob_name[1] \notin DOMAIN blobs

----------------------------------------------------------------------------
(* Two indexing runs at the same time                                      *)

\* Two callers over one store and one index, which is empty when the calls
\* begin.
InitConcurrent ==
    /\ blobs \in InitialContainers
    /\ points = {}
    /\ other_points = 0
    /\ ses = [s \in {1, 2} |-> IdleSession]
    /\ index_log = <<>>
    /\ calls = 0
    /\ IdleAssemble
    /\ IdleMerge
    /\ IdleChunk
    /\ IdleClassify
    /\ IdleDelete
    /\ IdleMemory

\* The runs are over the same sources: the documents under the prefix "s"
\* that are new, or the two sample names given as specific files.
ConcurrentArguments == {<<>>, <<<<NamesInOrder[2], NamesInOrder[3]>>>>}

\* The runs of process_and_index_documents_incremental, interleaved at the
\* scans, the listings, the documents and the single chunk writes, every
\* write succeeding.
NextConcurrent ==
    \/ \E s \in DOMAIN ses, specific_files \in ConcurrentArguments :
          StartReconcile(s, <<"s">>, specific_files)
    \/ \E s \in DOMAIN ses : ScanIndex(s)
    \/ \E s \in DOMAIN ses : ScanIndexFails(s)
    \/ \E s \in DOMAIN ses : ListBlobsNothingNew(s)
    \/ \E s \in DOMAIN ses : ListBlobsAndIndexNew(s)
    \/ \E s \in DOMAIN ses : ListBlobsFails(s)
    \/ \E s \in DOMAIN ses : SkipMissingBlob(s)
    \/ \E s \in DOMAIN ses : SkipEmptyDocument(s)
    \/ \E s \in DOMAIN ses : BeginDocument(s)
    \/ \E s \in DOMAIN ses : DocumentFails(s)
    \/ \E s \in DOMAIN ses : WriteChunk(s)
    \/ \E s \in DOMAIN ses : FinishDocument(s)
    \/ \E s \in DOMAIN ses : FinishRun(s)

SpecConcurrent == InitConcurrent /\ [][NextConcurrent]_vars

\* The entries one run alone leaves for the documents of the given names.
EntriesOfAll(names) ==
    UNION {EntriesOf(name, blobs[name]) : name \in names \cap DOMAIN blobs}

\* Every caller is at rest.
RunsAtRest == \A s \in DOMAIN ses : ses[s].pc \in {"idle", "done"}

\* C29: runs over the same store that execute at the same time, with every
\* write succeeding, leave the index as one run alone leaves it.  In every
\* state each (source, chunk ordinal) has at most one entry and every entry
\* is one that a run alone writes; when the runs are over, the index holds
\* exactly the entries of the documents that a run indexed, each document
\* with every chunk once.
C29_ConcurrentRunsLeaveOneRunsIndex ==
    /\ \A p \in points, q \in points :
          (p.metadata.source = q.metadata.source
              /\ p.metadata.chunk_index = q.metadata.chunk_index) => p = q
    /\ points \subseteq EntriesOfAll(DOMAIN blobs)
    /\ RunsAtRest =>
          points = EntriesOfAll(UNION {ses[s].done_ok : s \in DOMAIN ses})

\* Two incremental runs over the same prefix that both found the index empty
\* and both wrote the three chunks of the same document.
C29_Witness ==
    /\ RunsAtRest
    /\ ses[1].call = "reconcile" /\ ses[2].call = "reconcile"
    /\ ses[1].scanned /\ ses[2].scanned
    /\ ses[1].prefix = ses[2].prefix
    /\ ses[1].work = ses[2].work
    /\ \E name \in ses[1].done_ok \cap ses[2].done_ok :
          /\ Cardinality(EntriesOf(name, blobs[name])) = 3
          /\ PointsOfSource(name) = EntriesOf(name, blobs[name])
    /\ ses[1].writes >= 3 /\ ses[2].writes >= 3

----------------------------------------------------------------------------
(* Conversation memory: ConversationMemoryManager.add_message              *)

\* max_history of the manager (an argument of the constructor)
MaxHistory == 1

\* The number of add_message calls a behaviour may begin.
MaxMessages == 3

\* f"chat_history:{module}:{user_id}"
get_redis_key(user_id, module) == <<"chat_history", module, user_id>>

\* _serialize_message; the timestamp is the time of the call, here the
\* number of the call.
serialize_message(role, content, module, timestamp) ==
    [role |-> role, content |-> content, timestamp |-> timestamp,
     metadata |-> <<>>, module |-> module]

\* A caller that is in no call.
IdleAdd ==
    [pc          |-> "idle",   \* "idle" | "get" | "setex" | "cosmos" | "done"
     user_id     |-> <<>>,
     module      |-> <<>>,
     message     |-> <<>>,
     history     |-> <<>>,     \* the local list of lines 73-84
     redis_error |-> FALSE]

\* history[-n:]
LastOf(history, n) ==
    IF Len(history) > n THEN SubSeq(history, Len(history) - n + 1, Len(history))
    ELSE history

\* Lines 79-84: the message is appended and the oldest are dropped.
Appended(history, message) == LastOf(Append(history, message), MaxHistory * 2)

\* Lines 67-70: add_message(user_id, role, content, module=module)
StartAdd(c, user_id, role, content, module) ==
    /\ adds[c].pc = "idle"
    /\ arrivals < MaxMessages
    /\ arrivals' = arrivals + 1
    /\ adds' = [adds EXCEPT ![c] =
                   [IdleAdd EXCEPT !.user_id = <<user_id>>,
                                   !.module = <<module>>,
                                   !.message = <<serialize_message(role, content, module,
                                                                   arrivals + 1)>>,
                                   !.pc = "get"]]
    /\ UNCHANGED <<redis_cache, cosmos_items>>
    /\ UNCHANGED notR

RedisKey(r) == get_redis_key(r.user_id[1], r.module[1])

\* Lines 73-84: the history of the key is read, the message appended.
GetHistory(c) ==
    LET r == adds[c]
        history == IF RedisKey(r) \in DOMAIN redis_cache /\ redis_cache[RedisKey(r)] # <<>>
                   THEN redis_cache[RedisKey(r)] ELSE <<>>
    IN
    /\ r.pc = "get"
    /\ adds' = [adds EXCEPT ![c] = [r EXCEPT !.history = Appended(history, r.message[1]),
                                             !.pc = "setex"]]
    /\ UNCHANGED <<redis_cache, cosmos_items, arrivals>>
    /\ UNCHANGED notR

\* Line 73 raises: lines 93-94.
GetHistoryFails(c) ==
    /\ adds[c].pc = "get"
    /\ adds' = [adds EXCEPT ![c] = [adds[c] EXCEPT !.redis_error = TRUE, !.pc = "cosmos"]]
    /\ UNCHANGED <<redis_cache, cosmos_items, arrivals>>
    /\ UNCHANGED notR

\* Lines 87-91: the history is saved back under the key.
SetHistory(c) ==
    LET r == adds[c] IN
    /\ r.pc = "setex"
    /\ redis_cache' = Put(redis_cache, RedisKey(r), r.history)
    /\ adds' = [adds EXCEPT ![c] = [r EXCEPT !.pc = "cosmos"]]
    /\ UNCHANGED <<cosmos_items, arrivals>>
    /\ UNCHANGED notR

\* Line 87 raises: lines 93-94.
SetHistoryFails(c) ==
    /\ adds[c].pc = "setex"
    /\ adds' = [adds EXCEPT ![c] = [adds[c] EXCEPT !.redis_error = TRUE, !.pc = "cosmos"]]
    /\ UNCHANGED <<redis_cache, cosmos_items, arrivals>>
    /\ UNCHANGED notR

\* Lines 98-106: the item of the message is created.
CreateItem(c) ==
    LET r == adds[c] IN
    /\ r.pc = "cosmos"
    /\ cosmos_items' = cosmos_items \cup
          {[id         |-> <<r.module[1], r.user_id[1], r.message[1].timestamp>>,
            user_id    |-> r.user_id[1],
            module     |-> r.module[1],
            message    |-> r.message[1],
            created_at |-> r.message[1].timestamp]}
    /\ adds' = [adds EXCEPT ![c] = [r EXCEPT !.pc = "done"]]
    /\ UNCHANGED <<redis_cache, arrivals>>
    /\ UNCHANGED notR

\* Lines 108-111: create_item raises.
CreateItemFails(c) ==
    /\ adds[c].pc = "cosmos"
    /\ adds' = [adds EXCEPT ![c] = [adds[c] EXCEPT !.pc = "done"]]
    /\ UNCHANGED <<redis_cache, cosmos_items, arrivals>>
    /\ UNCHANGED notR

\* add_message returns.
ReturnAdd(c) ==
    /\ adds[c].pc = "done"
    /\ adds' = [adds EXCEPT ![c] = IdleAdd]
    /\ UNCHANGED <<redis_cache, cosmos_items, arrivals>>
    /\ UNCHANGED notR

MemoryModules == {"rag", "todo"}

InitMemory ==
    /\ redis_cache = <<>>
    /\ cosmos_items = {}
    /\ adds = [c \in {1, 2} |-> IdleAdd]
    /\ arrivals = 0
    /\ IdleAssemble
    /\ IdleMerge
    /\ IdleIndex
    /\ IdleChunk
    /\ IdleClassify
    /\ IdleDelete

NextMemory ==
    \/ \E c \in DOMAIN adds, module \in MemoryModules :
          StartAdd(c, "u", "user", "hi", module)
    \/ \E c \in DOMAIN adds : GetHistory(c)
    \/ \E c \in DOMAIN adds : GetHistoryFails(c)
    \/ \E c \in DOMAIN adds : SetHistory(c)
    \/ \E c \in DOMAIN adds : SetHistoryFails(c)
    \/ \E c \in DOMAIN adds : CreateItem(c)
    \/ \E c \in DOMAIN adds : CreateItemFails(c)
    \/ \E c \in DOMAIN adds : ReturnAdd(c)

SpecMemory == InitMemory /\ [][NextMemory]_vars

\* ---- claims about the conversation memory

\* The messages cached under the key of the call.
CachedFor(r) ==
    IF RedisKey(r) \in DOMAIN redis_cache
    THEN {redis_cache[RedisKey(r)][n] : n \in 1..Len(redis_cache[RedisKey(r)])}
    ELSE {}

\* C30: when add_message returns without an error of the cache, its message
\* is in the cached history of its key, and every cached history holds at
\* most 2 * max_history messages; this also when calls for the same key
\* interleave.
C30_ReturnedMessageIsCached ==
    /\ \A c \in DOMAIN adds :
          (adds[c].pc = "done" /\ ~adds[c].redis_error) =>
              adds[c].message[1] \in CachedFor(adds[c])
    /\ \A key \in DOMAIN redis_cache : Len(redis_cache[key]) <= 2 * MaxHistory

\* The write of line 87 puts the message of the call in the cache, whatever
\* it replaces there.
WriteCachesOwnMessage ==
    [][\A c \in DOMAIN adds :
          (adds[c].pc = "setex" /\ adds'[c].pc = "cosmos" /\ ~adds'[c].redis_error) =>
              /\ RedisKey(adds[c]) \in DOMAIN redis_cache'
              /\ LET history == redis_cache'[RedisKey(adds[c])]
                 IN history[Len(history)] = adds[c].message[1]]_vars

====
